---- MODULE Spec2Model ----
(***************************************************************************)
(* Omnex: authentication and multi-tenant access control.                  *)
(*                                                                         *)
(* The model covers src/core/auth.py (token codec and credential           *)
(* resolver), src/core/cache.py (Redis cache and token blacklist),         *)
(* src/services/base.py (tenant-scoped data access), src/services/auth.py  *)
(* (API-key lifecycle, registration, login, refresh tokens) and            *)
(* src/api/v1/context.py, memory.py (endpoints).                           *)
(*                                                                         *)
(* Time is an integer clock `now`.  The TTL settings are expressed in      *)
(* clock ticks; no TTL is longer than one the configuration makes longer   *)
(* (cache TTL <= access-token TTL <= refresh-token TTL).                   *)
(***************************************************************************)
EXTENDS Integers, FiniteSets, Sequences, TLC

VARIABLES
    now,            \* the wall clock, datetime.now(timezone.utc)
    multiTenant,    \* settings.ENABLE_MULTI_TENANT
    expAtBoundary,  \* jwt library: is a token presented at now = exp expired?
    redisState,     \* RedisCache._redis: "unconnected" | "up" | "down"
    redis,          \* the Redis key space: set of [key, value, until]
    issued,         \* payloads of the tokens signed so far
    nextJti,        \* source of fresh token ids (secrets.token_urlsafe)
    revokedJti,     \* history: jtis blacklisted for their remaining lifetime
    loggedOut,      \* history: jtis of the tokens a logout succeeded with
    users,          \* table auth.users
    inflight,       \* calls between two of their steps: register_user between
                    \* check and commit, a resolution between read and caching
    refreshTokens,  \* table auth.refresh_tokens
    apiKeys,        \* table auth.api_keys
    nextKey,        \* source of fresh API-key secrets and ids
    revokedAt,      \* history: API-key id -> {time it was deactivated}
    records,        \* table of a tenant-owned model served by BaseService
    nextId,         \* source of fresh primary keys
    contexts,       \* table contexts
    memories,       \* table memories
    resp            \* the outcome of the last operation

vars == <<now, multiTenant, expAtBoundary, redisState, redis, issued, nextJti,
          revokedJti, loggedOut, users, inflight, refreshTokens, apiKeys,
          nextKey, revokedAt, records, nextId, contexts, memories, resp>>

tokenVars == <<issued, nextJti>>
histVars  == <<revokedJti, loggedOut>>
acctVars  == <<users, inflight, refreshTokens>>
keyVars   == <<apiKeys, nextKey, revokedAt>>
dataVars  == <<records, nextId, contexts, memories>>
envVars   == <<multiTenant, expAtBoundary>>

----------------------------------------------------------------------------
(* Bounds of the model *)

MaxTime   == 3      \* the clock runs 0 .. MaxTime
MaxTokens == 1      \* tokens issued in one run
MaxKeys   == 1      \* API keys created in one run
MaxRows   == 2      \* rows created in one run of the data-access model
MaxCalls  == 2      \* register_user calls in flight at one time

(* Settings (src/core/config.py), in clock ticks *)

REDIS_AUTH_CACHE_TTL            == 2
JWT_ACCESS_TOKEN_EXPIRE_MINUTES == 2
JWT_REFRESH_TOKEN_EXPIRE_DAYS   == 3

DEFAULT_TENANT_ID      == <<"str", "t0">>
JWT_SECRET_KEY         == "jwt-secret"
API_KEY_CACHE_PREFIX   == "api_key:"
USER_CACHE_PREFIX      == "user:"
TOKEN_BLACKLIST_PREFIX == "blacklist:"

(* Value domains *)

None      == <<"None">>             \* Python's None
Uuid(x)   == <<"uuid", x>>          \* a uuid.UUID value
StrOf(u)  == <<"str", u[2]>>        \* str(uuid)
UUID(s)   == <<"uuid", s[2]>>       \* uuid.UUID(string)

Tenants   == {Uuid("t0"), Uuid("t1")}
ScopeSets == {<<>>, <<"read", "write">>}

NoneArg   == "None"                 \* a cache or db argument left at None
CacheArgs == {NoneArg, "cache"}     \* cache: Optional[RedisCache]
DbArgs    == {NoneArg, "db"}        \* db: Optional[AsyncSession]

Emails    == {"a@x.com", "b@x.com"}
Passwords == {"Secret123!", "WrongPass"}

\* hash_password: pwd_context.hash; the salt is left out
HashPassword(password) == [bcrypt |-> password]

\* verify_password: pwd_context.verify
VerifyPassword(plain_password, hashed_password) ==
    hashed_password = HashPassword(plain_password)

\* the accounts the store holds when the model starts: the same e-mail
\* address registered in two tenants
SeedUsers ==
    {[id |-> Uuid("u1"), tenant_id |-> Uuid("t0"), email |-> "a@x.com",
      hashed_password |-> HashPassword("Secret123!"), is_active |-> TRUE,
      is_superuser |-> FALSE, last_login_at |-> {}],
     [id |-> Uuid("u2"), tenant_id |-> Uuid("t1"), email |-> "a@x.com",
      hashed_password |-> HashPassword("Secret123!"), is_active |-> TRUE,
      is_superuser |-> TRUE, last_login_at |-> {}]}

----------------------------------------------------------------------------
(* The operation in progress: each operation runs to completion and leaves  *)
(* its outcome in resp until the caller has taken it                        *)

Idle == [op |-> "idle"]

(* Outcomes of calls: a value, an HTTPException, or another exception *)

Return(v)          == [kind |-> "return", value |-> v]
HTTPError(s, d)    == [kind |-> "http", status |-> s, detail |-> d]
Raise(e)           == [kind |-> "raise", exc |-> e]

----------------------------------------------------------------------------
(* Redis, as RedisCache uses it (src/core/cache.py) *)

\* RedisCache.redis property and the fate of one command on it
RedisAccess ==
    CASE redisState = "unconnected" -> "RuntimeError"
      [] redisState = "down"        -> "RedisError"
      [] OTHER                      -> "ok"

\* entries Redis still holds at the current time
Live(store) == {e \in store : e.until > now}

RedisGet(k) ==
    IF \E e \in Live(redis) : e.key = k
    THEN {(CHOOSE e \in Live(redis) : e.key = k).value}
    ELSE {}

RedisExists(k) == \E e \in Live(redis) : e.key = k

\* SETEX key ttl value: Redis rejects a ttl that is not positive
RedisSetex(k, ttl, v) ==
    {e \in redis : e.key # k} \cup {[key |-> k, value |-> v, until |-> now + ttl]}

RedisDelete(k) == {e \in redis : e.key # k}

----------------------------------------------------------------------------
(* Token blacklist (src/core/cache.py) *)

\* a blacklist_token that logs a RedisError and returns
BlacklistTokenOutcome_swallow(token_jti, expires_in) ==
    IF RedisAccess = "RuntimeError" THEN Raise("RuntimeError") ELSE Return(None)

\* RedisCache.blacklist_token: the outcome; RedisError is re-raised
BlacklistTokenOutcome(token_jti, expires_in) ==
    CASE RedisAccess = "RuntimeError"                 -> Raise("RuntimeError")
      [] RedisAccess = "RedisError" \/ expires_in <= 0 -> Raise("RedisError")
      [] OTHER                                        -> Return(None)

\* RedisCache.blacklist_token: the key space it leaves
BlacklistTokenStore(token_jti, expires_in) ==
    IF RedisAccess = "ok" /\ expires_in > 0
    THEN RedisSetex(<<TOKEN_BLACKLIST_PREFIX, token_jti>>, expires_in, "1")
    ELSE redis

\* RedisCache.is_token_blacklisted: only RedisError is caught (fail closed);
\* the RuntimeError of an unconnected cache is not a RedisError
IsTokenBlacklisted(token_jti) ==
    CASE RedisAccess = "RuntimeError" -> Raise("RuntimeError")
      [] RedisAccess = "RedisError"   -> Return(TRUE)
      [] OTHER -> Return(RedisExists(<<TOKEN_BLACKLIST_PREFIX, token_jti>>))

----------------------------------------------------------------------------
(* Credential codec (src/core/auth.py) *)

\* jwt.encode: header.payload.signature; a JWT starts with "eyJ"
JwtEncode(payload, secret) == [prefix |-> "eyJ", payload |-> payload, sig |-> secret]

\* create_access_token: the TokenData it signs
AccessPayload(user_id, tenant_id, scopes, jti) ==
    [sub       |-> StrOf(user_id),
     tenant_id |-> StrOf(tenant_id),
     exp       |-> now + JWT_ACCESS_TOKEN_EXPIRE_MINUTES,
     iat       |-> now,
     jti       |-> jti,
     type      |-> "access",
     scopes    |-> scopes]

\* create_refresh_token: the TokenData it signs
RefreshPayload(user_id, tenant_id, jti) ==
    [sub       |-> StrOf(user_id),
     tenant_id |-> StrOf(tenant_id),
     exp       |-> now + JWT_REFRESH_TOKEN_EXPIRE_DAYS,
     iat       |-> now,
     jti       |-> jti,
     type      |-> "refresh",
     scopes    |-> <<>>]

\* an expiry check that tolerates one tick past exp
Expired_leeway(exp) == exp + 1 < now

\* jwt's expiry check; the library decides the instant now = exp
Expired(exp) == exp < now \/ (exp = now /\ expAtBoundary)

\* decode_token: signature first, then expiry
DecodeToken(token) ==
    IF token.prefix # "eyJ" \/ token.sig # JWT_SECRET_KEY
    THEN HTTPError(401, "Invalid token")
    ELSE IF Expired(token.payload.exp)
         THEN HTTPError(401, "Token has expired")
         ELSE Return(token.payload)

\* a context that takes the account for the tenant and the tenant for the account
TokenContext_swapped(token_data) ==
    [tenant_id    |-> UUID(token_data.sub),
     user_id      |-> UUID(token_data.tenant_id),
     api_key_id   |-> None,
     auth_method  |-> "jwt",
     scopes       |-> token_data.scopes,
     is_superuser |-> FALSE]

\* AuthContext built by get_current_user_from_token
TokenContext(token_data) ==
    [tenant_id    |-> UUID(token_data.tenant_id),
     user_id      |-> UUID(token_data.sub),
     api_key_id   |-> None,
     auth_method  |-> "jwt",
     scopes       |-> token_data.scopes,
     is_superuser |-> FALSE]

\* get_current_user_from_token(token, cache); cache is None or the RedisCache
GetCurrentUserFromToken(token, cache) ==
    LET decoded == DecodeToken(token) IN
    IF decoded.kind # "return" THEN decoded
    ELSE IF cache # NoneArg
         THEN LET bl == IsTokenBlacklisted(decoded.value.jti) IN
              IF bl.kind # "return" THEN bl
              ELSE IF bl.value
                   THEN HTTPError(401, "Token has been revoked")
                   ELSE Return(TokenContext(decoded.value))
         ELSE Return(TokenContext(decoded.value))

----------------------------------------------------------------------------
(* Opaque API keys (src/core/auth.py, src/core/cache.py) *)

\* a digest that is the value itself
Sha256_plain(value) == value

\* hashlib.sha256(value.encode()).hexdigest()
Sha256(value) == [sha256 |-> value]


\* hash_api_key
HashApiKey(api_key) == Sha256(api_key)

\* generate_api_key with random material n: (full_key, key_hash, prefix)
GenerateApiKey(n) ==
    LET full_key == [prefix |-> "omnex_", body |-> n] IN
    [full_key |-> full_key, key_hash |-> Sha256(full_key),
     prefix |-> [prefix |-> "omnex_", head |-> n]]

\* a nullable UUID as model_dump(mode="json") writes it
DumpId(x) == IF x = None THEN None ELSE StrOf(x)

\* a nullable UUID as pydantic reads it back
LoadId(x) == IF x = None THEN None ELSE UUID(x)

\* AuthContext.model_dump(mode="json")
ModelDumpJson(ctx) ==
    [tenant_id    |-> DumpId(ctx.tenant_id),
     user_id      |-> DumpId(ctx.user_id),
     api_key_id   |-> DumpId(ctx.api_key_id),
     auth_method  |-> ctx.auth_method,
     scopes       |-> ctx.scopes,
     is_superuser |-> ctx.is_superuser]

\* AuthContext(**cached_data)
AuthContextFrom(data) ==
    [tenant_id    |-> LoadId(data.tenant_id),
     user_id      |-> LoadId(data.user_id),
     api_key_id   |-> LoadId(data.api_key_id),
     auth_method  |-> data.auth_method,
     scopes       |-> data.scopes,
     is_superuser |-> data.is_superuser]

\* RedisCache.get_cached_api_key: {} is None, {d} the cached dict
GetCachedApiKey(key_hash) ==
    CASE RedisAccess = "RuntimeError" -> Raise("RuntimeError")
      [] RedisAccess = "RedisError"   -> Return({})
      [] OTHER -> Return(RedisGet(<<API_KEY_CACHE_PREFIX, key_hash>>))

\* RedisCache.cache_api_key with the default ttl: outcome
CacheApiKeyOutcome(key_hash, api_key_data) ==
    IF RedisAccess = "RuntimeError" THEN Raise("RuntimeError") ELSE Return(None)

\* RedisCache.cache_api_key with the default ttl: the key space it leaves
CacheApiKeyStore(key_hash, api_key_data) ==
    IF RedisAccess = "ok"
    THEN RedisSetex(<<API_KEY_CACHE_PREFIX, key_hash>>, REDIS_AUTH_CACHE_TTL,
                    api_key_data)
    ELSE redis

\* RedisCache.invalidate_api_key: outcome
InvalidateApiKeyOutcome(key_hash) ==
    IF RedisAccess = "RuntimeError" THEN Raise("RuntimeError") ELSE Return(None)

\* RedisCache.invalidate_api_key: the key space it leaves
InvalidateApiKeyStore(key_hash) ==
    IF RedisAccess = "ok"
    THEN RedisDelete(<<API_KEY_CACHE_PREFIX, key_hash>>)
    ELSE redis

\* the rows select(APIKey).where(key_hash == h).where(is_active == True) finds
ActiveKeysByHash(key_hash) ==
    {k \in apiKeys : k.key_hash = key_hash /\ k.is_active}

\* an expiry test that lets every key through
KeyExpired_never(k) == FALSE

\* expires_at and expires_at < now
KeyExpired(k) == \E t \in k.expires_at : t < now

\* AuthContext built from an APIKey row and its user
ApiKeyContext(k) ==
    [tenant_id    |-> k.tenant_id,
     user_id      |-> k.user_id,
     api_key_id   |-> k.id,
     auth_method  |-> "api_key",
     scopes       |-> IF k.scopes # None THEN k.scopes[2] ELSE <<>>,
     is_superuser |-> (CHOOSE u \in users : u.id = k.user_id).is_superuser]

\* what a resolver call yields: its outcome, where the context came from, and
\* the store and the key space it leaves
Resolved(out, source, keys, store) ==
    [out |-> out, source |-> source, apiKeys |-> keys, redis |-> store]

\* get_current_user_from_api_key, after the cache lookup missed
ApiKeyFromStore(key_hash, cache, db) ==
    IF db = NoneArg
    THEN Resolved(HTTPError(500, "Database connection not available"),
                  "none", apiKeys, redis)
    ELSE IF ActiveKeysByHash(key_hash) = {}
    THEN Resolved(HTTPError(401, "Invalid API key"), "none", apiKeys, redis)
    ELSE LET k == CHOOSE x \in ActiveKeysByHash(key_hash) : TRUE
             used == [k EXCEPT !.last_used_at = {now}]
             keys == (apiKeys \ {k}) \cup {used}
             data == <<"json", ModelDumpJson(ApiKeyContext(k))>>
         IN
         IF KeyExpired(k)
         THEN Resolved(HTTPError(401, "API key has expired"), "none",
                       apiKeys, redis)
         ELSE IF cache = NoneArg
         THEN Resolved(Return(ApiKeyContext(k)), "store", keys, redis)
         ELSE IF CacheApiKeyOutcome(key_hash, data).kind # "return"
         THEN Resolved(CacheApiKeyOutcome(key_hash, data), "none", keys, redis)
         ELSE Resolved(Return(ApiKeyContext(k)), "store", keys,
                       CacheApiKeyStore(key_hash, data))

\* get_current_user_from_api_key(api_key, cache, db)
GetCurrentUserFromApiKey(api_key, cache, db) ==
    LET key_hash == HashApiKey(api_key)
        cached   == GetCachedApiKey(key_hash)
    IN
    IF cache = NoneArg THEN ApiKeyFromStore(key_hash, cache, db)
    ELSE IF cached.kind # "return" THEN Resolved(cached, "none", apiKeys, redis)
    ELSE IF cached.value # {}
    THEN Resolved(Return(AuthContextFrom((CHOOSE d \in cached.value : TRUE)[2])),
                  "cache", apiKeys, redis)
    ELSE ApiKeyFromStore(key_hash, cache, db)

----------------------------------------------------------------------------
(* The resolver (src/core/auth.py) *)

\* `not authorization`: None or the empty string
NoCredential == {[prefix |-> "None"], [prefix |-> ""]}

\* an unauthenticated context that names an account
DefaultContext_account ==
    [tenant_id    |-> UUID(DEFAULT_TENANT_ID),
     user_id      |-> Uuid("u1"),
     api_key_id   |-> None,
     auth_method  |-> "none",
     scopes       |-> <<>>,
     is_superuser |-> FALSE]

\* AuthContext of an unauthenticated call in self-hosted mode
DefaultContext ==
    [tenant_id    |-> UUID(DEFAULT_TENANT_ID),
     user_id      |-> None,
     api_key_id   |-> None,
     auth_method  |-> "none",
     scopes       |-> <<>>,
     is_superuser |-> FALSE]

\* a resolver that takes every credential for a signed token
GetAuthContext_allTokens(authorization, cache, db) ==
    Resolved(GetCurrentUserFromToken(authorization, cache), "none",
             apiKeys, redis)

\* get_auth_context(authorization, cache, db)
GetAuthContext(authorization, cache, db) ==
    IF authorization \in NoCredential
    THEN IF ~multiTenant
         THEN Resolved(Return(DefaultContext), "none", apiKeys, redis)
         ELSE Resolved(HTTPError(401, "Authorization required"), "none",
                       apiKeys, redis)
    ELSE IF authorization.prefix = "omnex_"
    THEN GetCurrentUserFromApiKey(authorization, cache, db)
    ELSE Resolved(GetCurrentUserFromToken(authorization, cache), "none",
                  apiKeys, redis)

\* get_auth_token(credentials): the bearer credential of the request
GetAuthToken(credentials) ==
    IF credentials = [prefix |-> "None"]
    THEN HTTPError(401, "Authorization header missing")
    ELSE Return(credentials)

\* Depends(get_auth_context) as the endpoints declare it: the token comes from
\* get_auth_token, and nothing supplies cache or db, which keep their default
DependsGetAuthContext(credentials) ==
    IF GetAuthToken(credentials).kind # "return"
    THEN Resolved(GetAuthToken(credentials), "none", apiKeys, redis)
    ELSE GetAuthContext(GetAuthToken(credentials).value, NoneArg, NoneArg)

\* get_optional_auth_context(authorization, cache, db): an HTTPException of
\* get_auth_context is caught and None returned; other exceptions pass.
\* The Optional[AuthContext] it returns: {} is None, {c} the context
GetOptionalAuthContext(authorization, cache, db) ==
    IF authorization \in NoCredential
    THEN Resolved(Return({}), "none", apiKeys, redis)
    ELSE LET r == GetAuthContext(authorization, cache, db) IN
         IF r.out.kind = "http"
         THEN Resolved(Return({}), "none", r.apiKeys, r.redis)
         ELSE IF r.out.kind = "return"
         THEN Resolved(Return({r.out.value}), r.source, r.apiKeys, r.redis)
         ELSE r

----------------------------------------------------------------------------
(* Initial state: settings loaded, cache constructed but not connected,      *)
(* the seeded accounts in the store                                          *)

InitStore(accounts) ==
    /\ now = 0
    /\ multiTenant \in BOOLEAN
    /\ expAtBoundary \in BOOLEAN
    /\ redisState = "unconnected"
    /\ redis = {}
    /\ issued = {}
    /\ nextJti = 1
    /\ revokedJti = {}
    /\ loggedOut = {}
    /\ users = accounts
    /\ inflight = {}
    /\ refreshTokens = {}
    /\ apiKeys = {}
    /\ nextKey = 1
    /\ revokedAt = {}
    /\ records = {}
    /\ nextId = 1
    /\ contexts = {}
    /\ memories = {}
    /\ resp = Idle

Init == InitStore(SeedUsers)

----------------------------------------------------------------------------
(* Environment: the clock and the Redis server *)

\* time passes, up to the limit of a model; Redis drops the entries whose
\* ttl has run out
TickTo(limit) ==
    /\ resp = Idle
    /\ now < limit
    /\ now' = now + 1
    /\ redis' = {e \in redis : e.until > now + 1}
    /\ resp' = Idle
    /\ UNCHANGED <<envVars, redisState, tokenVars, histVars, acctVars, keyVars,
                   dataVars>>

Tick == TickTo(MaxTime)

\* RedisCache.connect succeeds (the ping is answered)
RedisConnect ==
    /\ resp = Idle
    /\ redisState = "unconnected"
    /\ redisState' = "up"
    /\ resp' = [op |-> "connect", out |-> Return(None)]
    /\ UNCHANGED <<now, envVars, redis, tokenVars, histVars, acctVars, keyVars,
                   dataVars>>

\* RedisCache.connect fails: _redis is assigned, the ping raises RedisError
RedisConnectFail ==
    /\ resp = Idle
    /\ redisState = "unconnected"
    /\ redisState' = "down"
    /\ resp' = [op |-> "connect", out |-> Raise("RedisError")]
    /\ UNCHANGED <<now, envVars, redis, tokenVars, histVars, acctVars, keyVars,
                   dataVars>>

\* the Redis server becomes unreachable, or reachable again; it keeps its data
RedisOutage ==
    /\ resp = Idle
    /\ redisState = "up"
    /\ redisState' = "down"
    /\ resp' = Idle
    /\ UNCHANGED <<now, envVars, redis, tokenVars, histVars, acctVars, keyVars,
                   dataVars>>

RedisRecover ==
    /\ resp = Idle
    /\ redisState = "down"
    /\ redisState' = "up"
    /\ resp' = Idle
    /\ UNCHANGED <<now, envVars, redis, tokenVars, histVars, acctVars, keyVars,
                   dataVars>>

Environment ==
    Tick \/ RedisConnect \/ RedisConnectFail \/ RedisOutage \/ RedisRecover

----------------------------------------------------------------------------
(* Signed tokens: issuing, revoking, presenting *)

\* the bearer strings a client may present as a signed token
PresentedTokens ==
    {JwtEncode(i.payload, secret) :
        i \in issued, secret \in {JWT_SECRET_KEY, "wrong-secret"}}
    \cup {[prefix |-> "garbage"]}

\* create_access_token(user.id, user.tenant_id, scopes), as AuthService calls it
CreateAccessToken ==
    \E usr \in users, s \in ScopeSets :
        LET u == usr.id
            t == usr.tenant_id
            p == AccessPayload(u, t, s, nextJti)
        IN
        /\ resp = Idle
        /\ Cardinality(issued) < MaxTokens
        /\ issued' = issued \cup
               {[payload |-> p, user_id |-> u, tenant_id |-> t, scopes |-> s]}
        /\ nextJti' = nextJti + 1
        /\ resp' = [op |-> "create_access_token",
                    token |-> JwtEncode(p, JWT_SECRET_KEY)]
        /\ UNCHANGED <<now, envVars, redisState, redis, histVars, acctVars,
                       keyVars, dataVars>>

\* create_refresh_token(user.id, user.tenant_id), as AuthService calls it
CreateRefreshToken ==
    \E usr \in users :
        LET u == usr.id
            t == usr.tenant_id
            p == RefreshPayload(u, t, nextJti)
        IN
        /\ resp = Idle
        /\ Cardinality(issued) < MaxTokens
        /\ issued' = issued \cup
               {[payload |-> p, user_id |-> u, tenant_id |-> t, scopes |-> <<>>]}
        /\ nextJti' = nextJti + 1
        /\ resp' = [op |-> "create_refresh_token",
                    token |-> JwtEncode(p, JWT_SECRET_KEY)]
        /\ UNCHANGED <<now, envVars, redisState, redis, histVars, acctVars,
                       keyVars, dataVars>>

\* blacklist_token(jti, ttl): ttl is the token's remaining lifetime, or an
\* expire time Redis rejects
BlacklistToken ==
    \E i \in issued, ttl \in 0 .. JWT_REFRESH_TOKEN_EXPIRE_DAYS :
        LET jti == i.payload.jti
            out == BlacklistTokenOutcome(jti, ttl)
        IN
        /\ resp = Idle
        /\ ttl \in {0, i.payload.exp - now}
        /\ redis' = BlacklistTokenStore(jti, ttl)
        /\ revokedJti' =
              IF out.kind = "return" /\ ttl = i.payload.exp - now
              THEN revokedJti \cup {jti}
              ELSE revokedJti
        /\ resp' = [op |-> "blacklist_token", jti |-> jti, ttl |-> ttl,
                    out |-> out]
        /\ UNCHANGED <<now, envVars, redisState, tokenVars, loggedOut, acctVars,
                       keyVars, dataVars>>

\* is_token_blacklisted(jti)
CheckBlacklisted ==
    \E i \in issued :
        /\ resp = Idle
        /\ resp' = [op |-> "is_token_blacklisted", jti |-> i.payload.jti,
                    out |-> IsTokenBlacklisted(i.payload.jti)]
        /\ UNCHANGED <<now, envVars, redisState, redis, tokenVars, histVars,
                       acctVars, keyVars, dataVars>>

\* decode_token(token)
Decode ==
    \E tok \in PresentedTokens :
        /\ resp = Idle
        /\ resp' = [op |-> "decode_token", token |-> tok,
                    out |-> DecodeToken(tok)]
        /\ UNCHANGED <<now, envVars, redisState, redis, tokenVars, histVars,
                       acctVars, keyVars, dataVars>>

\* bearer strings that start with the API-key prefix: one no record has, and
\* strings that carry what would otherwise be a validly signed token
PrefixedStrings ==
    {GenerateApiKey(0).full_key} \cup
    {[prefix |-> "omnex_", payload |-> i.payload, sig |-> JWT_SECRET_KEY] :
        i \in issued}

\* get_auth_context(authorization, cache, db) called with its arguments given,
\* for a signed token, a string with the API-key prefix, or no credential;
\* only the API-key path reads db
ResolveToken ==
    \E a \in PresentedTokens \cup NoCredential \cup PrefixedStrings,
       cache \in CacheArgs, db \in DbArgs :
        LET r == GetAuthContext(a, cache, db) IN
        /\ resp = Idle
        /\ a.prefix = "omnex_" \/ db = NoneArg
        /\ resp' = [op |-> "get_auth_context", via |-> "call",
                    authorization |-> a, cache |-> cache, db |-> db,
                    out |-> r.out, source |-> r.source]
        /\ apiKeys' = r.apiKeys
        /\ redis' = r.redis
        /\ UNCHANGED <<now, envVars, redisState, tokenVars, histVars, acctVars,
                       nextKey, revokedAt, dataVars>>

\* a request to an endpoint that declares Depends(get_auth_context), carrying
\* a signed token, an empty bearer string, or no credentials
RequestWithToken ==
    \E a \in PresentedTokens \cup NoCredential :
        LET r == DependsGetAuthContext(a) IN
        /\ resp = Idle
        /\ resp' = [op |-> "get_auth_context", via |-> "depends",
                    authorization |-> a, cache |-> NoneArg, db |-> NoneArg,
                    out |-> r.out, source |-> r.source]
        /\ apiKeys' = r.apiKeys
        /\ redis' = r.redis
        /\ UNCHANGED <<now, envVars, redisState, tokenVars, histVars, acctVars,
                       nextKey, revokedAt, dataVars>>

\* get_optional_auth_context(authorization, cache, db), for a signed token,
\* an API key no record has, or no credential
OptionalAuth ==
    \E a \in PresentedTokens \cup NoCredential \cup {GenerateApiKey(0).full_key},
       cache \in CacheArgs, db \in DbArgs :
        LET r == GetOptionalAuthContext(a, cache, db) IN
        /\ resp = Idle
        /\ resp' = [op |-> "get_optional_auth_context", authorization |-> a,
                    cache |-> cache, db |-> db, out |-> r.out]
        /\ apiKeys' = r.apiKeys
        /\ redis' = r.redis
        /\ UNCHANGED <<now, envVars, redisState, tokenVars, histVars, acctVars,
                       nextKey, revokedAt, dataVars>>

\* the caller takes the outcome of the operation
Done ==
    /\ resp # Idle
    /\ resp' = Idle
    /\ UNCHANGED <<now, envVars, redisState, redis, tokenVars, histVars,
                   acctVars, keyVars, dataVars>>

NextToken ==
    \/ Environment
    \/ Done
    \/ CreateAccessToken
    \/ CreateRefreshToken
    \/ BlacklistToken
    \/ CheckBlacklisted
    \/ Decode
    \/ ResolveToken
    \/ RequestWithToken
    \/ OptionalAuth

SpecToken == Init /\ [][NextToken]_vars

----------------------------------------------------------------------------
(* Properties of signed tokens and of the blacklist *)

\* the last operation resolved a credential
IsResolve == resp.op = "get_auth_context"

\* the bearer string is a token this service signed
ValidlySigned(token) == token.prefix = "eyJ" /\ token.sig = JWT_SECRET_KEY

\* the record of the issued token with this payload
IssuedAs(payload) == CHOOSE i \in issued : i.payload = payload

RevokedError == HTTPError(401, "Token has been revoked")
ExpiredError == HTTPError(401, "Token has expired")

\* C1: once blacklist_token(j, ttl) succeeded with ttl = the remaining
\* lifetime of the token, is_token_blacklisted(j) returns true until the token
\* expires, and a request presenting the still-unexpired token through the
\* endpoints' dependency on get_auth_context is rejected as revoked.
C1_RevocationEffective ==
    /\ (resp.op = "is_token_blacklisted" /\ resp.jti \in revokedJti
        /\ \E i \in issued : i.payload.jti = resp.jti /\ now < i.payload.exp)
       => resp.out = Return(TRUE)
    /\ (IsResolve /\ resp.via = "depends" /\ ValidlySigned(resp.authorization)
        /\ resp.authorization.payload.jti \in revokedJti
        /\ now < resp.authorization.payload.exp)
       => resp.out = RevokedError

\* C4: is_token_blacklisted fails closed: whenever the cache cannot be read,
\* the cache not being connected included, the call returns true.
C4_FailsClosed ==
    (resp.op = "is_token_blacklisted" /\ redisState # "up")
    => resp.out = Return(TRUE)

\* C38: a validly signed, unexpired token whose type tag is "refresh",
\* presented to get_auth_context as the bearer credential, is rejected and
\* yields no context.
C38_RefreshTokenIsNoCredential ==
    (IsResolve
     /\ ValidlySigned(resp.authorization)
     /\ resp.authorization.payload.type = "refresh"
     /\ now < resp.authorization.payload.exp)
    => resp.out.kind = "http"

\* C25: blacklist_token never returns normally without the blacklist entry
\* of the token id being in Redis; when the write fails (server down, expire
\* time rejected, cache not connected) the caller gets the exception.
C25_BlacklistWrittenOrRaised ==
    resp.op = "blacklist_token" =>
        /\ resp.out.kind = "return"
           => RedisExists(<<TOKEN_BLACKLIST_PREFIX, resp.jti>>)
        /\ ~RedisExists(<<TOKEN_BLACKLIST_PREFIX, resp.jti>>)
           => resp.out.kind = "raise"

\* C25 reached: the write failed on a connected cache and the error
\* propagated
C25_Witness ==
    /\ resp.op = "blacklist_token"
    /\ redisState = "down"
    /\ resp.out = Raise("RedisError")
    /\ ~RedisExists(<<TOKEN_BLACKLIST_PREFIX, resp.jti>>)

\* the case of C8: an issued access token presented to the resolver before
\* its expiry
AccessPresented ==
    /\ IsResolve
    /\ ValidlySigned(resp.authorization)
    /\ resp.authorization.payload.type = "access"
    /\ now < resp.authorization.payload.exp

\* the payload and the context agree with what the token was issued for
RoundTrip(auth_method) ==
    LET p == resp.authorization.payload
        i == IssuedAs(p)
    IN
    /\ DecodeToken(resp.authorization) = Return(p)
    /\ p.sub = StrOf(i.user_id)
    /\ p.tenant_id = StrOf(i.tenant_id)
    /\ p.type = "access"
    /\ p.exp > p.iat
    /\ resp.out.kind = "return"
    /\ resp.out.value.user_id = i.user_id
    /\ resp.out.value.tenant_id = i.tenant_id
    /\ resp.out.value.scopes = i.scopes
    /\ resp.out.value.api_key_id = None
    /\ resp.out.value.auth_method = auth_method

C9_ExpiryBoundary ==
    /\ (resp.op \in {"decode_token", "get_auth_context"}
        /\ ValidlySigned(IF IsResolve THEN resp.authorization ELSE resp.token)
        /\ now > (IF IsResolve THEN resp.authorization ELSE resp.token).payload.exp)
       => resp.out = ExpiredError
    /\ (resp.op = "decode_token" /\ ValidlySigned(resp.token)
        /\ now + 1 <= resp.token.payload.exp)
       => resp.out = Return(resp.token.payload)

\* C9 reached: decode_token rejected a token one tick after its expiry
C9_Witness ==
    /\ resp.op = "decode_token"
    /\ ValidlySigned(resp.token)
    /\ now = resp.token.payload.exp + 1
    /\ resp.out = ExpiredError

\* the resolver body ran: the call was direct, or get_auth_token passed the
\* credential on
Reached == resp.via = "call" \/ GetAuthToken(resp.authorization).kind = "return"

C11_OptionalKeepsErrors ==
    resp.op = "get_optional_auth_context" =>
        /\ resp.out = Return({}) => resp.authorization \in NoCredential
        /\ (resp.authorization \notin NoCredential
            /\ GetAuthContext(resp.authorization, resp.cache, resp.db).out.kind
                   = "http")
           => resp.out =
                 GetAuthContext(resp.authorization, resp.cache, resp.db).out

\* C12: a presented credential that starts with "omnex_" is resolved only on
\* the API-key path, also when it would parse as a signed token; every other
\* non-empty credential is resolved only on the signed-token path.
C12_Classification ==
    (IsResolve /\ resp.authorization \notin NoCredential /\ Reached)
    => IF resp.authorization.prefix = "omnex_"
       THEN resp.out = GetCurrentUserFromApiKey(resp.authorization,
                                                resp.cache, resp.db).out
       ELSE resp.out = GetCurrentUserFromToken(resp.authorization, resp.cache)

\* C12 reached: a string with the API-key prefix that carries a validly
\* signed, unexpired token was looked up as an API key and not found
C12_Witness ==
    /\ IsResolve
    /\ resp.authorization \in PrefixedStrings
    /\ resp.authorization # GenerateApiKey(0).full_key
    /\ now < resp.authorization.payload.exp
    /\ resp.out = HTTPError(401, "Invalid API key")

----------------------------------------------------------------------------
(* Opaque API keys: creating, revoking, presenting (src/services/auth.py) *)

\* the accounts a caller may name: the stored ones and one that does not exist
CallerIds == {u.id : u \in users} \cup {Uuid("u9")}

\* the accounts of authenticated callers
AccountIds == {u.id : u \in users}

\* the bearer strings a client may present as an API key
PresentedKeys ==
    {GenerateApiKey(n).full_key :
        n \in {0} \cup {m \in 1 .. MaxKeys :
                           \E k \in apiKeys :
                               k.key_hash = GenerateApiKey(m).key_hash}}

\* UniqueConstraint('key_hash') of the api_keys table: the rows an insert
\* with this hash collides with
KeyHashTaken(key_hash) == {k \in apiKeys : k.key_hash = key_hash}

\* AuthService.create_api_key(user_id, name, scopes, expires_at); n is what
\* secrets.token_bytes draws, the row id is fresh, and the commit raises
\* IntegrityError when the hash is already stored
CreateApiKey ==
    \E user_id \in CallerIds, scopes \in ScopeSets, ttl \in {0, 1},
       n \in 1 .. MaxKeys :
        LET gen        == GenerateApiKey(n)
            expires_at == IF ttl = 0 THEN {} ELSE {now + ttl}
            user       == {u \in users : u.id = user_id}
            api_key    == [id           |-> Uuid(nextKey),
                           tenant_id    |-> (CHOOSE u \in user : TRUE).tenant_id,
                           user_id      |-> user_id,
                           key_hash     |-> gen.key_hash,
                           prefix       |-> gen.prefix,
                           scopes       |-> IF scopes # <<>>
                                            THEN <<"json", scopes>> ELSE None,
                           expires_at   |-> expires_at,
                           last_used_at |-> {},
                           is_active    |-> TRUE]
        IN
        /\ resp = Idle
        /\ nextKey <= MaxKeys + 1
        /\ IF user = {}
           THEN /\ resp' = [op |-> "create_api_key", user_id |-> user_id,
                            out |-> Raise("ValueError")]
                /\ UNCHANGED <<apiKeys, nextKey>>
           ELSE IF KeyHashTaken(gen.key_hash) # {}
           THEN /\ resp' = [op |-> "create_api_key", user_id |-> user_id,
                            out |-> Raise("IntegrityError")]
                /\ UNCHANGED <<apiKeys, nextKey>>
           ELSE /\ apiKeys' = apiKeys \cup {api_key}
                /\ nextKey' = nextKey + 1
                /\ resp' = [op |-> "create_api_key", user_id |-> user_id,
                            out |-> Return([id  |-> StrOf(api_key.id),
                                            key |-> gen.full_key,
                                            prefix |-> gen.prefix])]
        /\ UNCHANGED <<now, envVars, redisState, redis, tokenVars, histVars,
                       acctVars, revokedAt, dataVars>>

\* the rows of an account's active keys, newest first
\* (order_by(APIKey.created_at.desc()); row ids count up with creation)
ActiveKeysOf(user_id) ==
    LET ks == {k \in apiKeys : k.user_id = user_id /\ k.is_active} IN
    [i \in 1 .. Cardinality(ks) |->
        CHOOSE k \in ks :
            Cardinality({x \in ks : x.id[2] > k.id[2]}) = i - 1]

\* AuthService.list_api_keys(user_id); name and created_at are not kept
ListApiKeysResult(user_id) ==
    [i \in DOMAIN ActiveKeysOf(user_id) |->
        LET key == ActiveKeysOf(user_id)[i] IN
        [id           |-> StrOf(key.id),
         prefix       |-> key.prefix,
         last_used_at |-> key.last_used_at,
         expires_at   |-> key.expires_at]]

ListApiKeys ==
    \E user_id \in AccountIds :
        /\ resp = Idle
        /\ resp' = [op |-> "list_api_keys", user_id |-> user_id,
                    out |-> Return(ListApiKeysResult(user_id))]
        /\ UNCHANGED <<now, envVars, redisState, redis, tokenVars, histVars,
                       acctVars, keyVars, dataVars>>

\* a lookup of the key by its id alone
SelectOwnedKey_anyOwner(user_id, key_id) == {k \in apiKeys : k.id = key_id}

\* revoke_api_key's select: the key with this id owned by this account
SelectOwnedKey(user_id, key_id) ==
    {k \in apiKeys : k.id = key_id /\ k.user_id = user_id}

\* AuthService.revoke_api_key(user_id, key_id) of a service built with one
\* of `caches`: the flag is committed before the cache is invalidated
RevokeApiKeyWith(caches) ==
    \E user_id \in AccountIds, n \in 1 .. MaxKeys, cache \in caches :
        LET key_id == Uuid(n)
            found  == SelectOwnedKey(user_id, key_id)
            k      == CHOOSE x \in found : TRUE
            inv    == InvalidateApiKeyOutcome(k.key_hash)
        IN
        /\ resp = Idle
        /\ n < nextKey \/ n = MaxKeys
        /\ IF found = {}
           THEN /\ resp' = [op |-> "revoke_api_key", user_id |-> user_id,
                            key_id |-> key_id, out |-> Return(FALSE)]
                /\ UNCHANGED <<apiKeys, revokedAt, redis>>
           ELSE /\ apiKeys' = (apiKeys \ {k}) \cup {[k EXCEPT !.is_active = FALSE]}
                /\ revokedAt' = IF k.is_active
                                THEN revokedAt \cup {<<k.id, now>>}
                                ELSE revokedAt
                /\ redis' = IF cache # NoneArg
                            THEN InvalidateApiKeyStore(k.key_hash) ELSE redis
                /\ resp' = [op |-> "revoke_api_key", user_id |-> user_id,
                            key_id |-> key_id,
                            out |-> IF cache # NoneArg /\ inv.kind # "return"
                                    THEN inv ELSE Return(TRUE)]
        /\ UNCHANGED <<now, envVars, redisState, tokenVars, histVars, acctVars,
                       nextKey, dataVars>>

\* the service is built with or without a cache
RevokeApiKey == RevokeApiKeyWith(CacheArgs)

\* get_auth_context(authorization, cache, db) called with its arguments given,
\* for an API key
ResolveKey ==
    \E a \in PresentedKeys, cache \in CacheArgs, db \in DbArgs :
        LET r == GetAuthContext(a, cache, db) IN
        /\ resp = Idle
        /\ resp' = [op |-> "get_auth_context", via |-> "call",
                    authorization |-> a, cache |-> cache, db |-> db,
                    out |-> r.out, source |-> r.source]
        /\ apiKeys' = r.apiKeys
        /\ redis' = r.redis
        /\ UNCHANGED <<now, envVars, redisState, tokenVars, histVars, acctVars,
                       nextKey, revokedAt, dataVars>>

\* a request to an endpoint that declares Depends(get_auth_context), carrying
\* an API key
RequestWithKey ==
    \E a \in PresentedKeys :
        LET r == DependsGetAuthContext(a) IN
        /\ resp = Idle
        /\ resp' = [op |-> "get_auth_context", via |-> "depends",
                    authorization |-> a, cache |-> NoneArg, db |-> NoneArg,
                    out |-> r.out, source |-> r.source]
        /\ apiKeys' = r.apiKeys
        /\ redis' = r.redis
        /\ UNCHANGED <<now, envVars, redisState, tokenVars, histVars, acctVars,
                       nextKey, revokedAt, dataVars>>

NextKey ==
    \/ Environment
    \/ Done
    \/ CreateApiKey
    \/ RevokeApiKey
    \/ ResolveKey
    \/ RequestWithKey

\* API keys read neither the multi-tenant setting nor the jwt library's expiry
\* check: both stay fixed
InitKey == Init /\ ~multiTenant /\ ~expAtBoundary

SpecKey == InitKey /\ [][NextKey]_vars

\* administration of the keys at one instant: creating, listing, revoking,
\* with resolver calls that fill the connected cache
\* a resolution running beside other requests, up to its commit: the cache
\* had no entry, the store has the key active and unexpired, last_used_at is
\* committed; the call goes on to build and cache the context
ResolveKeyRead ==
    \E a \in PresentedKeys :
        LET key_hash == HashApiKey(a)
            k        == CHOOSE x \in ActiveKeysByHash(key_hash) : TRUE
        IN
        /\ resp = Idle
        /\ inflight = {}
        /\ GetCachedApiKey(key_hash) = Return({})
        /\ ActiveKeysByHash(key_hash) # {}
        /\ ~KeyExpired(k)
        /\ apiKeys' = (apiKeys \ {k}) \cup {[k EXCEPT !.last_used_at = {now}]}
        /\ inflight' = {[authorization |-> a, key_hash |-> key_hash,
                         context |-> ApiKeyContext(k)]}
        /\ UNCHANGED <<now, envVars, redisState, redis, tokenVars, histVars,
                       users, refreshTokens, nextKey, revokedAt, dataVars,
                       resp>>

\* the same resolution from its cache write on: the context read earlier is
\* cached and returned
ResolveKeyCache ==
    \E x \in inflight :
        LET data == <<"json", ModelDumpJson(x.context)>>
            put  == CacheApiKeyOutcome(x.key_hash, data)
        IN
        /\ resp = Idle
        /\ inflight' = inflight \ {x}
        /\ redis' = CacheApiKeyStore(x.key_hash, data)
        /\ resp' = [op |-> "get_auth_context", via |-> "concurrent",
                    authorization |-> x.authorization,
                    out |-> IF put.kind # "return" THEN put
                            ELSE Return(x.context),
                    source |-> "store"]
        /\ UNCHANGED <<now, envVars, redisState, tokenVars, histVars, users,
                       refreshTokens, keyVars, dataVars>>

\* revocation beside resolutions: the application's cache, connected once
SpecRace ==
    InitKey /\ [][\/ RedisConnect
                  \/ Done
                  \/ CreateApiKey
                  \/ RevokeApiKeyWith({"cache"})
                  \/ ResolveKeyRead
                  \/ ResolveKeyCache
                  \/ ResolveKey]_vars

NextKeyAdmin ==
    \/ RedisConnect
    \/ Done
    \/ CreateApiKey
    \/ ListApiKeys
    \/ RevokeApiKey
    \/ ResolveKey

SpecKeyAdmin == InitKey /\ [][NextKeyAdmin]_vars

----------------------------------------------------------------------------
(* Properties of API-key resolution *)

\* get_current_user_from_api_key returned a context for a presented key
KeyResolved ==
    /\ IsResolve
    /\ resp.authorization.prefix = "omnex_"
    /\ resp.out.kind = "return"

\* the stored records with the hash of the presented key
RecordsOf(api_key) == {k \in apiKeys : k.key_hash = HashApiKey(api_key)}

NotPastExpiry(k, at) == \A t \in k.expires_at : ~(t < at)

UserOf(user_id) == CHOOSE u \in users : u.id = user_id

\* C13: the raw key create_api_key returns hashes under hash_api_key to the
\* key_hash of the new record, and presenting the raw key of a record that
\* is active and not past its expiry resolves to a context with the
\* creating account's id, that account's tenant and the record's id.
C13_RoundTrip ==
    /\ (resp.op = "create_api_key" /\ resp.out.kind = "return") =>
           \E k \in apiKeys :
               /\ StrOf(k.id) = resp.out.value.id
               /\ k.user_id = resp.user_id
               /\ k.key_hash = HashApiKey(resp.out.value.key)
    /\ (IsResolve /\ resp.authorization.prefix = "omnex_") =>
           \A k \in RecordsOf(resp.authorization) :
               (k.is_active /\ NotPastExpiry(k, now)) =>
                   /\ resp.out.kind = "return"
                   /\ resp.out.value.user_id = k.user_id
                   /\ resp.out.value.tenant_id = UserOf(k.user_id).tenant_id
                   /\ resp.out.value.api_key_id = k.id

\* the raw keys generate_api_key can draw
Secrets == {GenerateApiKey(n).full_key : n \in 1 .. MaxKeys}

\* C14: the raw key is in the result of the create_api_key call that made
\* it and nowhere else: no column of a stored record, no cache key and no
\* entry of list_api_keys is a raw key, revoke_api_key returns a boolean, a
\* resolved context has the AuthContext fields only, and no two stored
\* records share a key hash.
C14_SecretOnlyAtCreation ==
    /\ \A k \in apiKeys :
           /\ DOMAIN k = {"id", "tenant_id", "user_id", "key_hash", "prefix",
                          "scopes", "expires_at", "last_used_at", "is_active"}
           /\ k.key_hash \notin Secrets
           /\ k.prefix \notin Secrets
    /\ \A a, b \in apiKeys : a.key_hash = b.key_hash => a = b
    /\ \A e \in redis :
           e.key[1] = API_KEY_CACHE_PREFIX => e.key[2] \notin Secrets
    /\ (resp.op = "create_api_key" /\ resp.out.kind = "return") =>
           /\ resp.out.value.key \in Secrets
           /\ \E k \in apiKeys : k.key_hash = HashApiKey(resp.out.value.key)
    /\ (resp.op = "list_api_keys" /\ resp.out.kind = "return") =>
           \A i \in DOMAIN resp.out.value :
               /\ DOMAIN resp.out.value[i] =
                      {"id", "prefix", "last_used_at", "expires_at"}
               /\ resp.out.value[i].prefix \notin Secrets
    /\ (resp.op = "revoke_api_key" /\ resp.out.kind = "return") =>
           resp.out.value \in BOOLEAN
    /\ KeyResolved =>
           DOMAIN resp.out.value = {"tenant_id", "user_id", "api_key_id",
                                    "auth_method", "scopes", "is_superuser"}

\* C14 reached: list_api_keys returned the entry of a key made earlier
C14_Witness ==
    /\ resp.op = "list_api_keys"
    /\ resp.out.value # <<>>

C32_RevokedStaysRevoked ==
    (IsResolve /\ resp.via = "call"
     /\ resp.authorization.prefix = "omnex_"
     /\ \E k \in RecordsOf(resp.authorization) : ~k.is_active)
    => resp.out.kind # "return"

\* C33: no step removes an API-key record or turns an inactive record
\* active; list_api_keys returns exactly the caller's active records; and
\* revoke_api_key on an already revoked key of the caller returns true and
\* leaves every record as it was.
C33_SoftOneWayRevocation ==
    [][/\ \A k \in apiKeys : \E q \in apiKeys' :
              q.id = k.id /\ (q.is_active => k.is_active)
       /\ (resp = Idle /\ resp'.op = "list_api_keys") =>
              LET listed == resp'.out.value
                  active == {k \in apiKeys : /\ k.user_id = resp'.user_id
                                              /\ k.is_active}
              IN /\ Len(listed) = Cardinality(active)
                 /\ {listed[i].id : i \in DOMAIN listed}
                        = {StrOf(k.id) : k \in active}
       /\ (resp = Idle /\ resp'.op = "revoke_api_key"
           /\ \E k \in apiKeys : /\ k.id = resp'.key_id
                                  /\ k.user_id = resp'.user_id
                                  /\ ~k.is_active)
          => (resp'.out = Return(TRUE) /\ apiKeys' = apiKeys)
      ]_vars

\* C26: get_auth_context, given a cache and a session, returns the context
\* of the record for the key of an active, unexpired record, whatever the
\* cache does (hit, miss, Redis error, cache not connected): no exception
\* of get_cached_api_key or cache_api_key reaches the caller.
C26_CacheNeverFatal ==
    (IsResolve /\ resp.via = "call"
     /\ resp.authorization.prefix = "omnex_"
     /\ resp.db # NoneArg)
    => \A k \in RecordsOf(resp.authorization) :
           (k.is_active /\ NotPastExpiry(k, now))
           => resp.out = Return(ApiKeyContext(k))

\* C27: every resolution of an API key that returns a context leaves the
\* key's record with last_used_at equal to the time of the resolution, also
\* when the context was served from the cache.
C27_LastUsedOnEveryUse ==
    KeyResolved =>
        \A k \in RecordsOf(resp.authorization) : k.last_used_at = {now}

----------------------------------------------------------------------------
(* Tenant-scoped data access (src/services/base.py).  `records` is the table *)
(* of a model that has a tenant_id column and no row-level-security policy,  *)
(* as auth.users and auth.api_keys                                           *)

Values     == {"v1", "v2"}
Namespaces == {"ns"}
Keys       == {"k1", "k2"}
RowIds     == {Uuid(n) : n \in 1 .. MaxRows}

\* keyword arguments of create and update: a value and, or not (None), a
\* tenant_id
Kwargs == [value : Values, tenant_id : Tenants \cup {None}]

\* hasattr(self.model, "tenant_id")
HasTenantId == TRUE

\* what a service call yields: its outcome and the table it leaves
Served(out, rows) == [out |-> out, records |-> rows]

\* BaseService.get(id): {} is None, {r} the instance
Get(tenant_id, id) ==
    {r \in records :
        /\ r.id = id
        /\ (tenant_id # None /\ HasTenantId) => r.tenant_id = tenant_id}

\* BaseService.create(**kwargs); the tenant_id column is NOT NULL
Create(tenant_id, kwargs) ==
    LET fields   == IF tenant_id # None /\ HasTenantId
                    THEN [kwargs EXCEPT !.tenant_id = tenant_id]
                    ELSE kwargs
        instance == [id |-> Uuid(nextId), tenant_id |-> fields.tenant_id,
                     value |-> fields.value]
    IN
    IF instance.tenant_id = None
    THEN Served(Raise("IntegrityError"), records)
    ELSE Served(Return({instance}), records \cup {instance})

\* an update that finds the row by id alone, whatever its tenant
Update_unscoped(tenant_id, id, kwargs) ==
    IF {r \in records : r.id = id} = {}
    THEN Served(Return({}), records)
    ELSE LET instance == CHOOSE r \in records : r.id = id
             updated  == [instance EXCEPT !.value = kwargs.value]
         IN Served(Return({updated}), (records \ {instance}) \cup {updated})

\* BaseService.update(id, **kwargs): setattr for every keyword given
Update(tenant_id, id, kwargs) ==
    IF Get(tenant_id, id) = {}
    THEN Served(Return({}), records)
    ELSE LET instance == CHOOSE r \in Get(tenant_id, id) : TRUE
             updated  == [instance EXCEPT
                            !.value = kwargs.value,
                            !.tenant_id = IF kwargs.tenant_id # None
                                          THEN kwargs.tenant_id ELSE @]
         IN Served(Return({updated}), (records \ {instance}) \cup {updated})

\* BaseService.delete(id)
Delete(tenant_id, id) ==
    IF Get(tenant_id, id) = {}
    THEN Served(Return(FALSE), records)
    ELSE Served(Return(TRUE), records \ Get(tenant_id, id))

\* a caller of tenant `caller` uses a service built with its tenant
\* (scoped) or without one
ServiceTenant(caller, scoped) == IF scoped THEN caller ELSE None

\* each action leaves in resp the table as it was (before) and, for update and
\* delete, what get(id) of the same service returned on it (got)
ServiceGet ==
    \E caller \in Tenants, scoped \in BOOLEAN, id \in RowIds :
        LET tenant_id == ServiceTenant(caller, scoped) IN
        /\ resp = Idle
        /\ resp' = [op |-> "get", caller |-> caller, tenant_id |-> tenant_id,
                    id |-> id, out |-> Return(Get(tenant_id, id)),
                    before |-> records]
        /\ UNCHANGED <<now, envVars, redisState, redis, tokenVars, histVars,
                       acctVars, keyVars, dataVars>>

ServiceCreate ==
    \E caller \in Tenants, scoped \in BOOLEAN, kwargs \in Kwargs :
        LET tenant_id == ServiceTenant(caller, scoped)
            r         == Create(tenant_id, kwargs)
        IN
        /\ resp = Idle
        /\ nextId <= MaxRows
        /\ records' = r.records
        /\ nextId' = IF r.out.kind = "return" THEN nextId + 1 ELSE nextId
        /\ resp' = [op |-> "create", caller |-> caller, tenant_id |-> tenant_id,
                    kwargs |-> kwargs, out |-> r.out, before |-> records]
        /\ UNCHANGED <<now, envVars, redisState, redis, tokenVars, histVars,
                       acctVars, keyVars, contexts, memories>>

ServiceUpdate ==
    \E caller \in Tenants, scoped \in BOOLEAN, id \in RowIds, kwargs \in Kwargs :
        LET tenant_id == ServiceTenant(caller, scoped)
            r         == Update(tenant_id, id, kwargs)
        IN
        /\ resp = Idle
        /\ records' = r.records
        /\ resp' = [op |-> "update", caller |-> caller, tenant_id |-> tenant_id,
                    id |-> id, kwargs |-> kwargs, out |-> r.out,
                    got |-> Get(tenant_id, id), before |-> records]
        /\ UNCHANGED <<now, envVars, redisState, redis, tokenVars, histVars,
                       acctVars, keyVars, nextId, contexts, memories>>

ServiceDelete ==
    \E caller \in Tenants, scoped \in BOOLEAN, id \in RowIds :
        LET tenant_id == ServiceTenant(caller, scoped)
            r         == Delete(tenant_id, id)
        IN
        /\ resp = Idle
        /\ records' = r.records
        /\ resp' = [op |-> "delete", caller |-> caller, tenant_id |-> tenant_id,
                    id |-> id, out |-> r.out, got |-> Get(tenant_id, id),
                    before |-> records]
        /\ UNCHANGED <<now, envVars, redisState, redis, tokenVars, histVars,
                       acctVars, keyVars, nextId, contexts, memories>>

----------------------------------------------------------------------------
(* Context and memory endpoints (src/api/v1/context.py, memory.py).  The    *)
(* caller is the AuthContext the dependency resolved; `auth` is its tenant   *)

\* request bodies as clients send them: the declared fields and, or not
\* (None), a tenant_id field of their own
ContextBodies ==
    [namespace : Namespaces, key : Keys, value : Values,
     tenant_id : Tenants \cup {None}]

MemoryBodies == [content : Values, tenant_id : Tenants \cup {None}]

\* ContextCreate: pydantic keeps the declared fields
ContextCreate(body) ==
    [namespace |-> body.namespace, key |-> body.key, value |-> body.value]

\* MemoryCreate: pydantic keeps the declared fields
MemoryCreate(body) == [content |-> body.content]

\* a lookup that ignores the tenant
SelectContext_anyTenant(auth, namespace, key) ==
    {c \in contexts : c.namespace = namespace /\ c.key = key}

\* select(Context) where tenant_id, namespace and key match
SelectContext(auth, namespace, key) ==
    {c \in contexts :
        c.tenant_id = auth /\ c.namespace = namespace /\ c.key = key}

\* what an endpoint yields: its outcome, the records in its response, and
\* the table it leaves
Responded(out, rows, table) == [out |-> out, rows |-> rows, table |-> table]

\* create_context
CreateContextResult(auth, context) ==
    LET new_context == [id        |-> Uuid(nextId),
                        tenant_id |-> auth,
                        namespace |-> context.namespace,
                        key       |-> context.key,
                        value     |-> context.value]
    IN
    IF SelectContext(auth, context.namespace, context.key) # {}
    THEN Responded(HTTPError(409, "Context already exists"), {}, contexts)
    ELSE Responded(Return(new_context), {new_context},
                   contexts \cup {new_context})

\* get_context
GetContextResult(auth, namespace, key) ==
    IF SelectContext(auth, namespace, key) = {}
    THEN Responded(HTTPError(404, "Context not found"), {}, contexts)
    ELSE LET context == CHOOSE c \in SelectContext(auth, namespace, key) : TRUE
         IN Responded(Return(context), {context}, contexts)

\* list_contexts without a tag filter, all rows within the page
ListContextsResult(auth, namespace) ==
    LET found == {c \in contexts : c.tenant_id = auth /\ c.namespace = namespace}
    IN Responded(Return(found), found, contexts)

\* update_context with a new value
UpdateContextResult(auth, namespace, key, value) ==
    IF SelectContext(auth, namespace, key) = {}
    THEN Responded(HTTPError(404, "Context not found"), {}, contexts)
    ELSE LET context == CHOOSE c \in SelectContext(auth, namespace, key) : TRUE
             updated == [context EXCEPT !.value = value]
         IN Responded(Return(updated), {updated},
                      (contexts \ {context}) \cup {updated})

\* delete_context
DeleteContextResult(auth, namespace, key) ==
    IF SelectContext(auth, namespace, key) = {}
    THEN Responded(HTTPError(404, "Context not found"), {}, contexts)
    ELSE Responded(Return(None), {},
                   contexts \ SelectContext(auth, namespace, key))

\* the statements the session of one context request sends, in order:
\* db.execute, the flush of db.commit, db.refresh, and the commit or rollback
\* get_db ends with.  Every SELECT, INSERT, UPDATE and DELETE is on contexts
ContextStatements(op, out) ==
    IF out.kind # "return" THEN <<"SET LOCAL", "SELECT", "ROLLBACK">>
    ELSE CASE op = "create_context" ->
                <<"SET LOCAL", "SELECT", "INSERT", "COMMIT", "SELECT", "COMMIT">>
           [] op = "update_context" ->
                <<"SET LOCAL", "SELECT", "UPDATE", "COMMIT", "SELECT", "COMMIT">>
           [] op = "delete_context" ->
                <<"SET LOCAL", "SELECT", "DELETE", "COMMIT", "COMMIT">>
           [] OTHER -> <<"SET LOCAL", "SELECT", "COMMIT">>

\* the statements of one memory request; the tenant-scoped table is memories
MemoryStatements(op, out) ==
    IF out.kind # "return" THEN <<"SET LOCAL", "SELECT", "ROLLBACK">>
    ELSE CASE op = "create_memory" ->
                <<"SET LOCAL", "INSERT", "COMMIT", "SELECT", "COMMIT">>
           [] OTHER -> <<"SET LOCAL", "SELECT", "COMMIT">>

CreateContext ==
    \E auth \in Tenants, body \in ContextBodies :
        LET r == CreateContextResult(auth, ContextCreate(body)) IN
        /\ resp = Idle
        /\ nextId <= MaxRows
        /\ contexts' = r.table
        /\ nextId' = IF r.out.kind = "return" THEN nextId + 1 ELSE nextId
        /\ resp' = [op |-> "create_context", auth |-> auth, body |-> body,
                    out |-> r.out, rows |-> r.rows,
                    sql |-> ContextStatements("create_context", r.out)]
        /\ UNCHANGED <<now, envVars, redisState, redis, tokenVars, histVars,
                       acctVars, keyVars, records, memories>>

GetContext ==
    \E auth \in Tenants, namespace \in Namespaces, key \in Keys :
        LET r == GetContextResult(auth, namespace, key) IN
        /\ resp = Idle
        /\ resp' = [op |-> "get_context", auth |-> auth,
                    namespace |-> namespace, key |-> key,
                    out |-> r.out, rows |-> r.rows,
                    sql |-> ContextStatements("get_context", r.out)]
        /\ UNCHANGED <<now, envVars, redisState, redis, tokenVars, histVars,
                       acctVars, keyVars, dataVars>>

ListContexts ==
    \E auth \in Tenants, namespace \in Namespaces :
        LET r == ListContextsResult(auth, namespace) IN
        /\ resp = Idle
        /\ resp' = [op |-> "list_contexts", auth |-> auth,
                    namespace |-> namespace, out |-> r.out, rows |-> r.rows,
                    sql |-> ContextStatements("list_contexts", r.out)]
        /\ UNCHANGED <<now, envVars, redisState, redis, tokenVars, histVars,
                       acctVars, keyVars, dataVars>>

UpdateContext ==
    \E auth \in Tenants, namespace \in Namespaces, key \in Keys,
       value \in Values :
        LET r == UpdateContextResult(auth, namespace, key, value) IN
        /\ resp = Idle
        /\ contexts' = r.table
        /\ resp' = [op |-> "update_context", auth |-> auth,
                    namespace |-> namespace, key |-> key,
                    out |-> r.out, rows |-> r.rows,
                    sql |-> ContextStatements("update_context", r.out)]
        /\ UNCHANGED <<now, envVars, redisState, redis, tokenVars, histVars,
                       acctVars, keyVars, records, nextId, memories>>

DeleteContext ==
    \E auth \in Tenants, namespace \in Namespaces, key \in Keys :
        LET r == DeleteContextResult(auth, namespace, key) IN
        /\ resp = Idle
        /\ contexts' = r.table
        /\ resp' = [op |-> "delete_context", auth |-> auth,
                    namespace |-> namespace, key |-> key,
                    out |-> r.out, rows |-> r.rows,
                    sql |-> ContextStatements("delete_context", r.out)]
        /\ UNCHANGED <<now, envVars, redisState, redis, tokenVars, histVars,
                       acctVars, keyVars, records, nextId, memories>>

\* create_memory
CreateMemory ==
    \E auth \in Tenants, body \in MemoryBodies :
        LET memory     == MemoryCreate(body)
            new_memory == [id |-> Uuid(nextId), tenant_id |-> auth,
                           content |-> memory.content]
        IN
        /\ resp = Idle
        /\ nextId <= MaxRows
        /\ memories' = memories \cup {new_memory}
        /\ nextId' = nextId + 1
        /\ resp' = [op |-> "create_memory", auth |-> auth, body |-> body,
                    out |-> Return(new_memory), rows |-> {new_memory},
                    sql |-> MemoryStatements("create_memory",
                                             Return(new_memory))]
        /\ UNCHANGED <<now, envVars, redisState, redis, tokenVars, histVars,
                       acctVars, keyVars, records, contexts>>

\* get_memory
GetMemory ==
    \E auth \in Tenants, memory_id \in RowIds :
        LET found == {m \in memories :
                         m.tenant_id = auth /\ m.id = memory_id}
            out   == IF found = {}
                     THEN HTTPError(404, "Memory not found")
                     ELSE Return(CHOOSE m \in found : TRUE)
        IN
        /\ resp = Idle
        /\ resp' = [op |-> "get_memory", auth |-> auth,
                    memory_id |-> memory_id, out |-> out, rows |-> found,
                    sql |-> MemoryStatements("get_memory", out)]
        /\ UNCHANGED <<now, envVars, redisState, redis, tokenVars, histVars,
                       acctVars, keyVars, dataVars>>

NextData ==
    \/ Done
    \/ ServiceGet
    \/ ServiceCreate
    \/ ServiceUpdate
    \/ ServiceDelete
    \/ CreateContext
    \/ GetContext
    \/ ListContexts
    \/ UpdateContext
    \/ DeleteContext
    \/ CreateMemory
    \/ GetMemory

\* data access reads neither the clock, nor the cache, nor the settings
InitData == Init /\ ~multiTenant /\ ~expAtBoundary

SpecData == InitData /\ [][NextData]_vars

----------------------------------------------------------------------------
(* Properties of tenant-scoped data access *)

ContextOps == {"create_context", "get_context", "list_contexts",
               "update_context", "delete_context"}

\* C2: every response of a context endpoint to a caller of tenant A holds
\* only records of tenant A, and a get by A for a namespace and key returns
\* A's record for them, or not-found when A has none, whatever other tenants
\* own under the same namespace and key.
C2_TenantIsolation ==
    resp.op \in ContextOps =>
        /\ \A r \in resp.rows : r.tenant_id = resp.auth
        /\ resp.op = "get_context" =>
              LET own == {c \in contexts : /\ c.tenant_id = resp.auth
                                           /\ c.namespace = resp.namespace
                                           /\ c.key = resp.key}
              IN IF own = {}
                 THEN resp.out.kind = "http" /\ resp.out.status = 404
                 ELSE resp.out.kind = "return" /\ own = {resp.out.value}

\* C2 reached: two tenants own a context under the same namespace and key
\* with different values, and a get returned the caller's
C2_Witness ==
    /\ resp.op = "get_context"
    /\ resp.out.kind = "return"
    /\ \E c \in contexts :
          /\ c.tenant_id # resp.auth
          /\ c.namespace = resp.namespace
          /\ c.key = resp.key
          /\ c.value # resp.out.value.value

\* C5: BaseService.get(id) returns a record only if the record's tenant is
\* the caller's tenant, for every service instance, one built without a
\* tenant id included; a record of another tenant gives None.
C5_GetOwnTenantOnly ==
    resp.op = "get" =>
        /\ resp.out.kind = "return"
        /\ \A r \in resp.out.value : r.tenant_id = resp.caller

\* C6: every record created through BaseService.create or through the
\* context and memory create endpoints carries the tenant id of the caller's
\* authorization context, whatever tenant id the caller's input names.
C6_CreatedCarriesCallerTenant ==
    /\ (resp.op = "create" /\ resp.out.kind = "return")
       => \A r \in resp.out.value : r.tenant_id = resp.caller
    /\ (resp.op \in {"create_context", "create_memory"}
        /\ resp.out.kind = "return")
       => resp.out.value.tenant_id = resp.auth

\* C7: update(id, fields) and delete(id) mutate a record if and only if
\* get(id) of the same service returns it; when get(id) returns nothing they
\* return None / False and leave every stored record as it was.
C7_MutateIffVisible ==
    /\ resp.op = "update" =>
          IF resp.got = {}
          THEN resp.out = Return({}) /\ records = resp.before
          ELSE /\ resp.out.kind = "return"
               /\ \E r \in resp.got, u \in resp.out.value :
                     /\ resp.out.value = {u}
                     /\ u.id = r.id
                     /\ u.value = resp.kwargs.value
                     /\ records = (resp.before \ {r}) \cup {u}
    /\ resp.op = "delete" =>
          IF resp.got = {}
          THEN resp.out = Return(FALSE) /\ records = resp.before
          ELSE resp.out = Return(TRUE) /\ records = resp.before \ resp.got

\* C7 reached: update was called for a record that exists but that get(id)
\* of the same service does not return, and nothing changed
C7_Witness ==
    /\ resp.op = "update"
    /\ resp.got = {}
    /\ \E r \in resp.before : r.id = resp.id /\ r.value # resp.kwargs.value
    /\ resp.out = Return({})
    /\ records = resp.before

\* C29: the tenant_id of a stored record, context or memory is never changed
\* by a later operation: a row that keeps its id keeps its tenant_id.
C29_TenantIdImmutable ==
    [][/\ \A r \in records, q \in records' :
              q.id = r.id => q.tenant_id = r.tenant_id
       /\ \A r \in contexts, q \in contexts' :
              q.id = r.id => q.tenant_id = r.tenant_id
       /\ \A r \in memories, q \in memories' :
              q.id = r.id => q.tenant_id = r.tenant_id
      ]_vars

\* the statements that read or write a table under the tenant policy
TenantScoped == {"SELECT", "INSERT", "UPDATE", "DELETE"}

\* statement i of the request runs in a transaction in which SET LOCAL
\* app.current_tenant_id was executed before it
Established(sql, i) ==
    \E j \in 1 .. (i - 1) :
        /\ sql[j] = "SET LOCAL"
        /\ \A k \in (j + 1) .. (i - 1) : sql[k] \notin {"COMMIT", "ROLLBACK"}

\* C30: in a context or memory request every statement on a tenant-scoped
\* table runs in a transaction that already executed SET LOCAL
\* app.current_tenant_id; none runs after a commit without a new SET LOCAL.
C30_TenantSettingBeforeQuery ==
    resp.op \in ContextOps \cup {"create_memory", "get_memory"} =>
        \A i \in DOMAIN resp.sql :
            resp.sql[i] \in TenantScoped => Established(resp.sql, i)

----------------------------------------------------------------------------
(* Accounts: registration (src/services/auth.py).  A register_user call is   *)
(* two steps, its existence check and its commit; calls of different         *)
(* requests interleave between the two                                       *)

\* ids of the rows registration adds, in the order they are added
NewUserIds == <<"u4", "u5", "u6", "u7">>

\* a check that finds no account
ExistingAccount_none(tenant_id, email) == {}

\* register_user's select: the accounts with this (tenant_id, email)
ExistingAccount(tenant_id, email) ==
    {u \in users : u.tenant_id = tenant_id /\ u.email = email}

\* a users table whose tenant_id column is nullable
UsersRejects_nullable(row) ==
    \E u \in users : u.tenant_id = row.tenant_id /\ u.email = row.email

\* the users table on insert: tenant_id is NOT NULL, and
\* UniqueConstraint('tenant_id', 'email', name='uq_tenant_email')
UsersRejects(row) ==
    \/ row.tenant_id = None
    \/ \E u \in users : u.tenant_id = row.tenant_id /\ u.email = row.email

\* register_user(email, password, full_name, tenant_id) up to its existence
\* check: the duplicate error, or the call goes on to build the account
RegisterUserCheck ==
    \E email \in Emails, tenant_id \in {None} \cup Tenants,
       c \in 1 .. MaxCalls :
        LET password == "Secret123!"
            tid == IF tenant_id = None /\ ~multiTenant
                   THEN UUID(DEFAULT_TENANT_ID) ELSE tenant_id
        IN
        /\ resp = Idle
        /\ c \notin {x.call : x \in inflight}
        /\ \A d \in 1 .. c - 1 : d \in {x.call : x \in inflight}
        /\ IF ExistingAccount(tid, email) # {}
           THEN /\ resp' = [op |-> "register_user", step |-> "check",
                            tenant_id |-> tid, email |-> email,
                            out |-> Raise("ValueError")]
                /\ UNCHANGED inflight
           ELSE /\ inflight' = inflight \cup
                       {[call |-> c, tenant_id |-> tid, email |-> email,
                         given |-> tenant_id,
                         hashed_password |-> HashPassword(password)]}
                /\ UNCHANGED resp
        /\ UNCHANGED <<now, envVars, redisState, redis, tokenVars, histVars,
                       users, refreshTokens, keyVars, dataVars>>

\* register_user from db.add(user) on: the commit inserts the row or raises
\* IntegrityError, which register_user does not catch
RegisterUserCommit ==
    \E x \in inflight :
        LET user == [id              |-> Uuid(NewUserIds[Cardinality(users)
                                              - Cardinality(SeedUsers) + 1]),
                     tenant_id       |-> x.tenant_id,
                     email           |-> x.email,
                     hashed_password |-> x.hashed_password,
                     is_active       |-> TRUE,
                     is_superuser    |-> FALSE,
                     last_login_at   |-> {}]
        IN
        /\ resp = Idle
        /\ inflight' = inflight \ {x}
        /\ IF UsersRejects(user)
           THEN /\ resp' = [op |-> "register_user", step |-> "commit",
                            tenant_id |-> x.tenant_id, email |-> x.email,
                            out |-> Raise("IntegrityError")]
                /\ UNCHANGED users
           ELSE /\ users' = users \cup {user}
                /\ resp' = [op |-> "register_user", step |-> "commit",
                            tenant_id |-> x.tenant_id, email |-> x.email,
                            given |-> x.given, out |-> Return(user)]
        /\ UNCHANGED <<now, envVars, redisState, redis, tokenVars, histVars,
                       refreshTokens, keyVars, dataVars>>

NextRegister ==
    \/ Done
    \/ RegisterUserCheck
    \/ RegisterUserCommit

\* registration reads the multi-tenant setting and no clock
InitRegister == Init /\ ~expAtBoundary

SpecRegister == InitRegister /\ [][NextRegister]_vars

----------------------------------------------------------------------------
(* Properties of registration *)

\* the accounts with the (tenant, email) of the register_user call in resp
SamePair(accounts) ==
    {u \in accounts : u.tenant_id = resp.tenant_id /\ u.email = resp.email}

\* C16: a register_user call for a (tenant, email) pair an account already
\* has does not go on to build an account: it fails at its check with the
\* duplicate-account error (ValueError) and leaves the accounts as they
\* were; no two accounts ever share (tenant id, email).
C16_NoDuplicateAccount ==
    /\ [][resp = Idle =>
            /\ \A x \in inflight' \ inflight :
                   ~\E u \in users : /\ u.tenant_id = x.tenant_id
                                     /\ u.email = x.email
            /\ (resp'.op = "register_user" /\ resp'.step = "check") =>
                   /\ \E u \in users : /\ u.tenant_id = resp'.tenant_id
                                        /\ u.email = resp'.email
                   /\ resp'.out = Raise("ValueError")
                   /\ users' = users]_vars
    /\ [](\A a, b \in users :
             (a.tenant_id = b.tenant_id /\ a.email = b.email) => a = b)

\* C16 reached: an account was registered, and a later call for its pair
\* was refused as a duplicate
C16_Witness ==
    /\ resp.op = "register_user"
    /\ resp.out = Raise("ValueError")
    /\ \E u \in SamePair(users) : u \notin SeedUsers

\* C17: of two register_user calls for one (tenant, email) that both passed
\* the existence check, one creates the account and the other fails with
\* the duplicate-account error (ValueError), not with a fault of the store.
C17_LoserGetsDuplicateError ==
    (resp.op = "register_user" /\ resp.step = "commit"
     /\ resp.out.kind = "raise" /\ resp.tenant_id # None)
    => (resp.out = Raise("ValueError") /\ Cardinality(SamePair(users)) = 1)

\* C35: no stored account is without a tenant id, and the account
\* register_user returns has the tenant_id the caller gave, or, when none
\* was given, the default tenant, which happens only with multi-tenant mode
\* off.
C35_AccountHasOneTenant ==
    /\ \A u \in users : u.tenant_id # None
    /\ (resp.op = "register_user" /\ resp.out.kind = "return") =>
           LET user == resp.out.value IN
           /\ user \in users
           /\ resp.given # None => user.tenant_id = resp.given
           /\ resp.given = None =>
                  (~multiTenant /\ user.tenant_id = UUID(DEFAULT_TENANT_ID))

\* C35 reached: an account registered without a tenant id was stored under
\* the default tenant
C35_Witness ==
    /\ resp.op = "register_user"
    /\ resp.out.kind = "return"
    /\ resp.given = None
    /\ resp.out.value.tenant_id = UUID(DEFAULT_TENANT_ID)

----------------------------------------------------------------------------
(* Accounts: login and sessions (src/services/auth.py) *)

\* an account that was deactivated
InactiveUser ==
    [id |-> Uuid("u3"), tenant_id |-> Uuid("t0"), email |-> "b@x.com",
     hashed_password |-> HashPassword("Secret123!"), is_active |-> FALSE,
     is_superuser |-> FALSE, last_login_at |-> {}]

\* the e-mail addresses a login names
LoginEmails == Emails \cup {"nobody@x.com"}

\* authenticate_user's query: by email, and by tenant when multi-tenant mode
\* is on and a tenant is given, or by the default tenant when it is off
AuthenticateQuery(email, tenant_id) ==
    {u \in users :
        /\ u.email = email
        /\ IF multiTenant /\ tenant_id # None THEN u.tenant_id = tenant_id
           ELSE IF ~multiTenant THEN u.tenant_id = UUID(DEFAULT_TENANT_ID)
           ELSE TRUE}

\* AuthService.authenticate_user(email, password, tenant_id): {} is None,
\* {u} the account; scalar_one_or_none raises when the query has two rows
AuthenticateUser ==
    \E email \in LoginEmails, password \in Passwords,
       tenant_id \in {None} \cup Tenants :
        LET rows   == AuthenticateQuery(email, tenant_id)
            user   == CHOOSE u \in rows : TRUE
            logged == [user EXCEPT !.last_login_at = {now}]
            call   == [op |-> "authenticate_user", email |-> email,
                       password |-> password, tenant_id |-> tenant_id]
        IN
        /\ resp = Idle
        /\ IF Cardinality(rows) > 1
           THEN /\ resp' = call @@ [out |-> Raise("MultipleResultsFound")]
                /\ UNCHANGED users
           ELSE IF rows = {} \/ ~VerifyPassword(password, user.hashed_password)
           THEN /\ resp' = call @@ [out |-> Return({})]
                /\ UNCHANGED users
           ELSE IF ~user.is_active
           THEN /\ resp' = call @@ [out |-> Return({})]
                /\ UNCHANGED users
           ELSE /\ users' = (users \ {user}) \cup {logged}
                /\ resp' = call @@ [out |-> Return({logged})]
        /\ UNCHANGED <<now, envVars, redisState, redis, tokenVars, histVars,
                       inflight, refreshTokens, keyVars, dataVars>>

\* a refresh token whose stored hash is the token string itself
CreateRefreshTokenResult_raw(user_id, tenant_id, jti) ==
    LET token == JwtEncode(RefreshPayload(user_id, tenant_id, jti),
                           JWT_SECRET_KEY)
    IN [token |-> token, token_hash |-> token,
        expires_at |-> now + JWT_REFRESH_TOKEN_EXPIRE_DAYS]

\* create_refresh_token(user_id, tenant_id): (token, token_hash, expires_at)
CreateRefreshTokenResult(user_id, tenant_id, jti) ==
    LET token == JwtEncode(RefreshPayload(user_id, tenant_id, jti),
                           JWT_SECRET_KEY)
    IN [token |-> token, token_hash |-> Sha256(token),
        expires_at |-> now + JWT_REFRESH_TOKEN_EXPIRE_DAYS]

\* what `issued` records of a token signed for an account
IssuedFor(user, payload) ==
    [payload |-> payload, user_id |-> user.id, tenant_id |-> user.tenant_id,
     scopes |-> payload.scopes]

\* the refresh tokens signed so far
IssuedRefresh(tokens) == {i \in tokens : i.payload.type = "refresh"}

\* AuthService.create_tokens(user), while fewer than `limit` sessions exist
CreateTokensUpTo(limit) ==
    \E user \in users :
        LET access  == AccessPayload(user.id, user.tenant_id,
                                     <<"read", "write">>, nextJti)
            refresh == CreateRefreshTokenResult(user.id, user.tenant_id,
                                                nextJti + 1)
            row     == [user_id    |-> user.id,
                        token_hash |-> refresh.token_hash,
                        expires_at |-> refresh.expires_at]
        IN
        /\ resp = Idle
        /\ Cardinality(IssuedRefresh(issued)) < limit
        /\ issued' = issued \cup {IssuedFor(user, access),
                                  IssuedFor(user, refresh.token.payload)}
        /\ nextJti' = nextJti + 2
        /\ refreshTokens' = refreshTokens \cup {row}
        /\ resp' = [op |-> "create_tokens", user_id |-> user.id,
                    out |-> Return(
                        [access_token  |-> JwtEncode(access, JWT_SECRET_KEY),
                         refresh_token |-> refresh.token,
                         token_type    |-> "bearer"])]
        /\ UNCHANGED <<now, envVars, redisState, redis, histVars, users,
                       inflight, keyVars, dataVars>>

CreateTokens == CreateTokensUpTo(MaxTokens)

\* a refresh token signed with the service's key that create_tokens never
\* returned
UnknownRefresh ==
    JwtEncode([sub |-> StrOf(Uuid("u1")), tenant_id |-> StrOf(Uuid("t0")),
               exp |-> MaxTime + 1, iat |-> 0, jti |-> 0, type |-> "refresh",
               scopes |-> <<>>], JWT_SECRET_KEY)

\* the strings a client may send as a refresh token
PresentedRefresh == PresentedTokens \cup {UnknownRefresh}

\* a lookup that takes any stored row
RefreshTokenRows_any(token_hash) == refreshTokens

\* select(RefreshToken).where(RefreshToken.token_hash == token_hash)
RefreshTokenRows(token_hash) ==
    {r \in refreshTokens : r.token_hash = token_hash}

\* a type test that lets every token pass
IsRefreshType_any(token_data) == TRUE

\* refresh_access_token's test of the type tag
IsRefreshType(token_data) == token_data.type = "refresh"

\* an account test that lets every account pass
AccountActive_always(user) == TRUE

\* refresh_access_token's test of the owning account
AccountActive(user) == user.is_active

\* a refresh that rotates: the row of the presented token is deleted
RowsAfterRefresh_rotating(row) == refreshTokens \ {row}

\* the refresh-token table a successful refresh_access_token leaves: the
\* call neither adds, deletes nor commits anything
RowsAfterRefresh(row) == refreshTokens

\* AuthService.refresh_access_token(refresh_token): {} is None; every
\* exception, decode_token's included, is caught and None returned; log is
\* the message the call writes to the logger
RefreshAccessToken ==
    \E refresh_token \in PresentedRefresh :
        LET decoded == DecodeToken(refresh_token)
            rows    == RefreshTokenRows(HashApiKey(refresh_token))
            row     == CHOOSE r \in rows : TRUE
            user    == UserOf(row.user_id)
            access  == AccessPayload(user.id, user.tenant_id,
                                     <<"read", "write">>, nextJti)
            call    == [op |-> "refresh_access_token",
                        refresh_token |-> refresh_token]
        IN
        /\ resp = Idle
        /\ IF decoded.kind # "return"
           THEN /\ resp' = call @@ [out |-> Return({}),
                                    log |-> "Error refreshing token"]
                /\ UNCHANGED <<tokenVars, refreshTokens>>
           ELSE IF ~IsRefreshType(decoded.value)
           THEN /\ resp' = call @@ [out |-> Return({}),
                                    log |-> "Invalid token type for refresh"]
                /\ UNCHANGED <<tokenVars, refreshTokens>>
           ELSE IF rows = {}
           THEN /\ resp' = call @@ [out |-> Return({}),
                                    log |-> "Refresh token not found"]
                /\ UNCHANGED <<tokenVars, refreshTokens>>
           ELSE IF row.expires_at < now
           THEN /\ refreshTokens' = refreshTokens \ {row}
                /\ resp' = call @@ [out |-> Return({}),
                                    log |-> "Refresh token expired"]
                /\ UNCHANGED tokenVars
           ELSE IF ~AccountActive(user)
           THEN /\ resp' = call @@
                       [out |-> Return({}),
                        log |-> "Inactive user attempted token refresh"]
                /\ UNCHANGED <<tokenVars, refreshTokens>>
           ELSE /\ Cardinality(issued) <
                      2 * Cardinality(IssuedRefresh(issued)) + MaxTokens + 1
                /\ issued' = issued \cup {IssuedFor(user, access)}
                /\ nextJti' = nextJti + 1
                /\ resp' = call @@
                       [out |-> Return({[access_token |->
                                            JwtEncode(access, JWT_SECRET_KEY),
                                         token_type |-> "bearer"]}),
                        log |-> "none"]
                /\ refreshTokens' = RowsAfterRefresh(row)
        /\ UNCHANGED <<now, envVars, redisState, redis, histVars, users,
                       inflight, keyVars, dataVars>>

\* AuthService.revoke_refresh_token(refresh_token): the row is deleted
RevokeRefreshToken ==
    \E refresh_token \in PresentedRefresh :
        LET rows == RefreshTokenRows(HashApiKey(refresh_token)) IN
        /\ resp = Idle
        /\ refreshTokens' = refreshTokens \ rows
        /\ resp' = [op |-> "revoke_refresh_token",
                    refresh_token |-> refresh_token,
                    out |-> Return(rows # {})]
        /\ UNCHANGED <<now, envVars, redisState, redis, tokenVars, histVars,
                       users, inflight, keyVars, dataVars>>

\* POST /login: authenticate_user, without a tenant_id, commits the
\* last-login time; create_tokens then signs the tokens and commits the
\* refresh-token row, a commit the database completes (persisted) or not
Login ==
    \E email \in LoginEmails, password \in Passwords, persisted \in BOOLEAN :
        LET rows    == AuthenticateQuery(email, None)
            user    == CHOOSE u \in rows : TRUE
            logged  == [user EXCEPT !.last_login_at = {now}]
            access  == AccessPayload(user.id, user.tenant_id,
                                     <<"read", "write">>, nextJti)
            refresh == CreateRefreshTokenResult(user.id, user.tenant_id,
                                                nextJti + 1)
            row     == [user_id    |-> user.id,
                        token_hash |-> refresh.token_hash,
                        expires_at |-> refresh.expires_at]
            call    == [op |-> "login", email |-> email, password |-> password]
        IN
        /\ resp = Idle
        /\ IF Cardinality(rows) > 1
           THEN /\ resp' = call @@ [out |-> Raise("MultipleResultsFound")]
                /\ UNCHANGED <<users, tokenVars, refreshTokens>>
           ELSE IF \/ rows = {}
                   \/ ~VerifyPassword(password, user.hashed_password)
                   \/ ~user.is_active
           THEN /\ resp' = call @@
                       [out |-> HTTPError(401, "Invalid email or password")]
                /\ UNCHANGED <<users, tokenVars, refreshTokens>>
           ELSE /\ users' = (users \ {user}) \cup {logged}
                /\ IF persisted
                   THEN /\ Cardinality(IssuedRefresh(issued)) < MaxTokens
                        /\ issued' = issued \cup
                               {IssuedFor(user, access),
                                IssuedFor(user, refresh.token.payload)}
                        /\ nextJti' = nextJti + 2
                        /\ refreshTokens' = refreshTokens \cup {row}
                        /\ resp' = call @@ [out |-> Return(
                               [access_token  |->
                                    JwtEncode(access, JWT_SECRET_KEY),
                                refresh_token |-> refresh.token,
                                token_type    |-> "bearer"])]
                   ELSE /\ resp' = call @@ [out |-> Raise("OperationalError")]
                        /\ UNCHANGED <<tokenVars, refreshTokens>>
        /\ UNCHANGED <<now, envVars, redisState, redis, histVars, inflight,
                       keyVars, dataVars>>

NextLogin ==
    \/ Tick
    \/ Done
    \/ AuthenticateUser

\* the store holds the seeded accounts and a deactivated one; a login
\* decodes no token
InitLogin == InitStore(SeedUsers \cup {InactiveUser}) /\ ~expAtBoundary

SpecLogin == InitLogin /\ [][NextLogin]_vars

\* operations that fail part-way: a login, a revocation
SpecAbort ==
    InitLogin /\ [][Tick \/ Done \/ Login \/ CreateApiKey \/ RevokeApiKey]_vars

\* the clock of the sessions runs one tick further, past the expiry of a
\* refresh token
SessionTick == TickTo(MaxTime + 1)

NextSession ==
    \/ SessionTick
    \/ Done
    \/ CreateTokens
    \/ RefreshAccessToken
    \/ RevokeRefreshToken
    \/ RequestWithToken

\* the same accounts; the token operations do not read the multi-tenant
\* setting
InitSession == InitStore(SeedUsers \cup {InactiveUser}) /\ ~multiTenant

SpecSession == InitSession /\ [][NextSession]_vars

\* revocation among several sessions: a second login before the first
\* session is revoked
SpecRevoke ==
    InitSession /\ [][\/ Done
                      \/ CreateTokensUpTo(MaxTokens + 1)
                      \/ RefreshAccessToken
                      \/ RevokeRefreshToken]_vars

----------------------------------------------------------------------------
(* Properties of login and sessions *)

\* the accounts an authenticate_user call is about: those with its e-mail
\* address in the tenant it names, or in the default tenant when
\* multi-tenant mode is off, or in any tenant when it names none
AccountsNamed(call) ==
    {u \in users :
        /\ u.email = call.email
        /\ (~multiTenant) => u.tenant_id = UUID(DEFAULT_TENANT_ID)
        /\ (multiTenant /\ call.tenant_id # None) =>
               u.tenant_id = call.tenant_id}

\* the three failures of a login: no account, a password that matches no
\* account, or a matching account that is inactive
LoginFails(call) ==
    \A u \in AccountsNamed(call) :
        ~VerifyPassword(call.password, u.hashed_password) \/ ~u.is_active

\* C18: authenticate_user returns the same value, None, for a missing
\* account, a password mismatch and an inactive account, and then leaves the
\* accounts and the refresh tokens as they were; when it returns an account,
\* that account's last-login time is the current time.
C18_UniformLoginFailure ==
    [][(resp = Idle /\ resp'.op = "authenticate_user") =>
          /\ LoginFails(resp') =>
                 /\ resp'.out = Return({})
                 /\ users' = users
                 /\ refreshTokens' = refreshTokens
          /\ (resp'.out.kind = "return" /\ resp'.out.value # {}) =>
                 \A u \in resp'.out.value :
                     /\ u \in users'
                     /\ u.last_login_at = {now}
      ]_vars

\* the token strings signed so far
RawTokens == {JwtEncode(i.payload, JWT_SECRET_KEY) : i \in issued}

\* C19: a create_tokens call that returns adds exactly one refresh-token
\* row, owned by the account, with the hash of the returned refresh token
\* and that token's expiry, and signs exactly one refresh token; no other
\* operation adds a row; no row holds a token string.
C19_OneRowPerRefreshToken ==
    /\ [][resp = Idle =>
            IF resp'.op = "create_tokens" /\ resp'.out.kind = "return"
            THEN LET t == resp'.out.value.refresh_token IN
                 /\ \E row \in refreshTokens' \ refreshTokens :
                        /\ refreshTokens' = refreshTokens \cup {row}
                        /\ row.user_id = resp'.user_id
                        /\ row.token_hash = Sha256(t)
                        /\ row.expires_at = t.payload.exp
                 /\ IssuedRefresh(issued') \ IssuedRefresh(issued) =
                        {i \in issued' : i.payload = t.payload}
                 /\ Cardinality(IssuedRefresh(issued') \ IssuedRefresh(issued))
                        = 1
            ELSE /\ refreshTokens' \subseteq refreshTokens
                 /\ IssuedRefresh(issued') = IssuedRefresh(issued)]_vars
    /\ [](\A row \in refreshTokens : row.token_hash \notin RawTokens)

\* C19 reached: create_tokens returned a pair and its row is stored
C19_Witness ==
    /\ resp.op = "create_tokens"
    /\ \E row \in refreshTokens :
           row.token_hash = Sha256(resp.out.value.refresh_token)

\* the refresh tokens create_tokens signed that match the presented string
IssuedAsRefresh(token) ==
    {i \in IssuedRefresh(issued) :
        ValidlySigned(token) /\ token.payload = i.payload}

\* C20: refresh_access_token called with a refresh token that create_tokens
\* issued for an active account, before the token's expiry and with its row
\* still stored, returns an access token whose subject and tenant are that
\* account's; called with a string create_tokens never issued as a refresh
\* token, it returns None.
C20_RefreshRoundTrip ==
    resp.op = "refresh_access_token" =>
        LET t == resp.refresh_token IN
        /\ \A i \in IssuedAsRefresh(t) :
               (/\ now < t.payload.exp
                /\ RefreshTokenRows(Sha256(t)) # {}
                /\ UserOf(i.user_id).is_active)
               => /\ resp.out.kind = "return"
                  /\ resp.out.value # {}
                  /\ \A r \in resp.out.value :
                         /\ ValidlySigned(r.access_token)
                         /\ r.access_token.payload.type = "access"
                         /\ r.access_token.payload.sub = StrOf(i.user_id)
                         /\ r.access_token.payload.tenant_id =
                                StrOf(UserOf(i.user_id).tenant_id)
        /\ IssuedAsRefresh(t) = {} => resp.out = Return({})

\* C20 reached: an issued refresh token was exchanged for an access token
C20_Witness ==
    /\ resp.op = "refresh_access_token"
    /\ IssuedAsRefresh(resp.refresh_token) # {}
    /\ resp.out.value # {}

\* an access token create_tokens signed, presented as it was signed
IssuedAsAccess(token) ==
    {i \in issued : /\ i.payload.type = "access"
                    /\ ValidlySigned(token)
                    /\ token.payload = i.payload}

\* C21: refresh_access_token called with a validly signed, unexpired access
\* token returns None, and it does so at the test of the type tag, before
\* the refresh-token table is read.
C21_AccessTokenNeverRefreshes ==
    (resp.op = "refresh_access_token"
     /\ IssuedAsAccess(resp.refresh_token) # {}
     /\ now < resp.refresh_token.payload.exp)
    => /\ resp.out = Return({})
       /\ resp.log = "Invalid token type for refresh"

\* C21 reached: an unexpired access token was presented while the table
\* held a row
C21_Witness ==
    /\ resp.op = "refresh_access_token"
    /\ IssuedAsAccess(resp.refresh_token) # {}
    /\ now < resp.refresh_token.payload.exp
    /\ refreshTokens # {}

\* C22: refresh_access_token called with a refresh token of create_tokens
\* whose stored row is past its expiry returns None, and afterwards the
\* table holds no row for the token.
C22_ExpiredRowPurged ==
    [][(resp = Idle /\ resp'.op = "refresh_access_token"
        /\ IssuedAsRefresh(resp'.refresh_token) # {}
        /\ \E r \in RefreshTokenRows(Sha256(resp'.refresh_token)) :
               r.expires_at < now)
       => /\ resp'.out = Return({})
          /\ \A r \in refreshTokens' :
                 r.token_hash # Sha256(resp'.refresh_token)
      ]_vars

\* C23: refresh_access_token returns no access token when the account that
\* owns the presented refresh token is inactive, the token being issued,
\* unexpired and its row stored.
C23_InactiveNeverRefreshes ==
    resp.op = "refresh_access_token" =>
        \A i \in IssuedAsRefresh(resp.refresh_token) :
            ~UserOf(i.user_id).is_active => resp.out = Return({})

\* C23 reached: the unexpired refresh token of an inactive account, its row
\* stored, was presented
C23_Witness ==
    /\ resp.op = "refresh_access_token"
    /\ \E i \in IssuedAsRefresh(resp.refresh_token) :
           /\ ~UserOf(i.user_id).is_active
           /\ now < i.payload.exp
    /\ RefreshTokenRows(Sha256(resp.refresh_token)) # {}

\* C28: a request presenting a validly signed, unexpired access token of an
\* account whose is_active flag is false is rejected with 401; the resolver
\* returns no context for an inactive account.
C28_DeactivatedAccountRejected ==
    (AccessPresented
     /\ \E i \in IssuedAsAccess(resp.authorization) :
            ~UserOf(i.user_id).is_active)
    => /\ resp.out.kind = "http"
       /\ resp.out.status = 401

\* C31: an operation that fails part-way leaves nothing committed: a login
\* that ends in an error leaves the accounts and the refresh-token rows as
\* they were, and a revoke_api_key that raises leaves the API-key records as
\* they were.
C31_FailureLeavesNothing ==
    [][/\ (resp = Idle /\ resp'.op = "login" /\ resp'.out.kind # "return")
          => (users' = users /\ refreshTokens' = refreshTokens)
       /\ (resp = Idle /\ resp'.op = "revoke_api_key"
           /\ resp'.out.kind = "raise")
          => apiKeys' = apiKeys
      ]_vars

\* C34: authenticate_user never fails on an ambiguous match, and an account
\* it returns belongs to the tenant the lookup was for: the tenant_id given
\* when multi-tenant mode is on, the default tenant when it is off.
C34_LoginWithinTenant ==
    resp.op = "authenticate_user" =>
        /\ resp.out.kind = "return"
        /\ \A u \in resp.out.value :
               u.tenant_id = IF multiTenant THEN resp.tenant_id
                             ELSE UUID(DEFAULT_TENANT_ID)

\* the stored rows whose hash is that of the presented token
RowsOf(token) == {r \in refreshTokens : r.token_hash = Sha256(token)}

\* C36: a refresh_access_token call that returns a token leaves the
\* refresh-token rows, the accounts and the API keys as they were, returns
\* an access token and a token type and nothing else, and the row of the
\* presented token is still stored for the next refresh.
C36_RefreshLeavesStore ==
    [][(resp = Idle /\ resp'.op = "refresh_access_token"
        /\ resp'.out.value # {})
       => /\ refreshTokens' = refreshTokens
          /\ users' = users
          /\ apiKeys' = apiKeys
          /\ \E r \in refreshTokens' :
                 r.token_hash = Sha256(resp'.refresh_token)
          /\ \A t \in resp'.out.value :
                 DOMAIN t = {"access_token", "token_type"}
      ]_vars

\* C36 reached: the same refresh token was refreshed with a second time
C36_Witness ==
    /\ resp.op = "refresh_access_token"
    /\ resp.out.value # {}
    /\ \E i \in IssuedAsRefresh(resp.refresh_token) :
           Cardinality({a \in issued : /\ a.payload.type = "access"
                                       /\ a.user_id = i.user_id}) >= 3

----------------------------------------------------------------------------
(* Logout (src/api/v1/auth.py) *)

\* RedisCache.invalidate_user: outcome; only RedisError is caught
InvalidateUserOutcome(user_id) ==
    IF RedisAccess = "RuntimeError" THEN Raise("RuntimeError") ELSE Return(None)

\* RedisCache.invalidate_user: the key space it leaves
InvalidateUserStore(user_id) ==
    IF RedisAccess = "ok"
    THEN RedisDelete(<<USER_CACHE_PREFIX, user_id>>)
    ELSE redis

\* POST /logout: the context comes from Depends(get_auth_context), the cache
\* from get_cache (the module's RedisCache, always truthy); the cached
\* account of the caller is dropped, and nothing is written to the blacklist
Logout ==
    \E a \in PresentedTokens \cup NoCredential :
        LET r    == DependsGetAuthContext(a)
            auth == r.out.value
            inv  == IF auth.user_id # None
                    THEN InvalidateUserOutcome(StrOf(auth.user_id))
                    ELSE Return(None)
            out  == IF r.out.kind # "return" THEN r.out
                    ELSE IF inv.kind # "return" THEN inv
                    ELSE Return([message |-> "Successfully logged out"])
        IN
        /\ resp = Idle
        /\ resp' = [op |-> "logout", authorization |-> a, out |-> out]
        /\ apiKeys' = r.apiKeys
        /\ redis' = IF r.out.kind = "return" /\ auth.user_id # None
                    THEN InvalidateUserStore(StrOf(auth.user_id))
                    ELSE r.redis
        /\ loggedOut' = IF out.kind = "return" /\ auth.auth_method = "jwt"
                        THEN loggedOut \cup {a.payload.jti}
                        ELSE loggedOut
        /\ UNCHANGED <<now, envVars, redisState, tokenVars, revokedJti,
                       acctVars, nextKey, revokedAt, dataVars>>

NextLogout ==
    \/ Environment
    \/ Done
    \/ CreateAccessToken
    \/ Logout
    \/ RequestWithToken

SpecLogout == Init /\ [][NextLogout]_vars

\* C24: after a logout request authenticated with a signed token succeeded,
\* the token's id is on the blacklist, and every later request presenting
\* that token before its expiry is rejected.
C24_LogoutRevokesToken ==
    /\ (resp.op = "logout" /\ resp.out.kind = "return"
        /\ ValidlySigned(resp.authorization))
       => RedisExists(<<TOKEN_BLACKLIST_PREFIX,
                        resp.authorization.payload.jti>>)
    /\ (AccessPresented /\ resp.authorization.payload.jti \in loggedOut)
       => resp.out.kind = "http"

----------------------------------------------------------------------------
(* The current account: GET /me (src/api/v1/auth.py, src/services/auth.py) *)

\* AuthService.get_user_by_id(user_id) of a service built with the cache:
\* {} is None, {<<"dict", d>>} the cached dict, {<<"User", u>>} the row; the
\* dict written to the cache has the keys the code lists (full_name, which
\* the model's accounts do not carry, aside)
GetUserById(user_id) ==
    LET cache_key == <<USER_CACHE_PREFIX, StrOf(user_id)>>
        cached    == IF RedisAccess = "ok" THEN RedisGet(cache_key) ELSE {}
        rows      == {u \in users : u.id = user_id}
        user      == CHOOSE u \in rows : TRUE
        user_data == [id           |-> StrOf(user.id),
                      tenant_id    |-> StrOf(user.tenant_id),
                      email        |-> user.email,
                      is_active    |-> user.is_active,
                      is_superuser |-> user.is_superuser]
    IN
    IF RedisAccess = "RuntimeError"
    THEN [out |-> Raise("RuntimeError"), redis |-> redis]
    ELSE IF cached # {}
    THEN [out |-> Return({<<"dict", (CHOOSE d \in cached : TRUE)[2]>>}),
          redis |-> redis]
    ELSE IF rows = {}
    THEN [out |-> Return({}), redis |-> redis]
    ELSE [out |-> Return({<<"User", user>>}),
          redis |-> IF RedisAccess = "ok"
                    THEN RedisSetex(cache_key, REDIS_AUTH_CACHE_TTL,
                                    <<"json", user_data>>)
                    ELSE redis]

\* UserResponse(**kwargs): pydantic refuses keyword arguments that lack a
\* field declared without a default
UserResponse(kwargs) ==
    IF {"id", "email", "tenant_id", "is_active", "is_superuser", "created_at"}
           \subseteq DOMAIN kwargs
    THEN Return(kwargs)
    ELSE Raise("ValidationError")

\* GET /me for a context that names an account; created_at is the column's
\* value, set by the database for every row
GetCurrentUser ==
    \E user_id \in CallerIds :
        LET r    == GetUserById(user_id)
            user == (CHOOSE x \in r.out.value : TRUE)[2]
            out  == IF r.out.kind # "return" THEN r.out
                    ELSE IF r.out.value = {}
                    THEN HTTPError(404, "User not found")
                    ELSE IF \E x \in r.out.value : x[1] = "dict"
                    THEN UserResponse(user)
                    ELSE UserResponse(
                             [id            |-> user.id,
                              email         |-> user.email,
                              tenant_id     |-> user.tenant_id,
                              is_active     |-> user.is_active,
                              is_superuser  |-> user.is_superuser,
                              created_at    |-> "server_default",
                              last_login_at |-> user.last_login_at])
        IN
        /\ resp = Idle
        /\ resp' = [op |-> "get_current_user", user_id |-> user_id,
                    found |-> r.out, out |-> out]
        /\ redis' = r.redis
        /\ UNCHANGED <<now, envVars, redisState, tokenVars, histVars, acctVars,
                       keyVars, dataVars>>

SpecMe == InitKey /\ [][Environment \/ Done \/ GetCurrentUser]_vars

\* C39: GET /me gives the same outcome from the cache as from the store:
\* when get_user_by_id returned the cached dict of an account, the response
\* is built, as it is from the account's row.
C39_CacheHitReadsAsStore ==
    (resp.op = "get_current_user"
     /\ resp.found.kind = "return"
     /\ \E x \in resp.found.value : x[1] = "dict")
    => /\ resp.out.kind = "return"
       /\ resp.out.value.email = UserOf(resp.user_id).email

====
